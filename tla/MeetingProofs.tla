--------------------------- MODULE MeetingProofs ---------------------------
(***************************************************************************)
(* The promises of MeetingProperties, for any rooms, bookings, handlers    *)
(* and lengths of a meeting.  What holds however handlers interleave rests *)
(* on HandlersAreLegal: a window a handler is about to write was checked   *)
(* as it will be written, of a booking that was made.  That no room is     *)
(* booked twice rests on ChecksStillHold, which holds as long as requests  *)
(* come one after the other.                                               *)
(***************************************************************************)
EXTENDS MeetingProperties, TLAPS

HandlersAreLegal ==
  \A h \in Handlers :
    /\ proc[h].pc \in {"create", "move"} => IsValidWindow(proc[h].window)
    /\ proc[h].pc \in {"move", "cancel"} => booking[proc[h].id].status # "NONE"

\* What NoDoubleBookingInTurn rests on: the window a handler is about to write
\* still clashes with no other booking.
ChecksStillHold ==
  \A h \in Handlers :
    /\ proc[h].pc = "create" => NoOverlap(proc[h].window, Booked)
    /\ proc[h].pc = "move" => NoOverlap(proc[h].window, Booked \ {proc[h].id})

OneInFlight ==
  \A g, h \in Handlers : proc[g].pc # "idle" /\ proc[h].pc # "idle" => g = h

InTurn == ~overlapped => OneInFlight /\ NoDoubleBooking /\ ChecksStillHold

Inv == TypeOK /\ WindowsAreLegal /\ OfficeFollowsRoom /\ HandlersAreLegal

USE MeetingAssumption

-----------------------------------------------------------------------------
(* The values the model starts from and writes *)

\* A handler at rest is a handler, and a row that was not written a row.
LEMMA RestingValues ==
  /\ Idle \in Handler /\ Idle.pc = "idle"
  /\ NoBooking \in [status : Statuses, row : Rows] /\ NoBooking.status = "NONE"
<1>1. (CHOOSE b \in Bookings : TRUE) \in Bookings
  OBVIOUS
<1>2. PICK r \in Rooms : TRUE
  OBVIOUS
<1>3. 0 \in Times
  BY DEF Times
<1>4. [room |-> r, from |-> 0, to |-> 0] \in Windows
  BY <1>3 DEF Windows
<1>5. (CHOOSE w \in Windows : TRUE) \in Windows
  BY <1>4
<1>6. [room |-> r, from |-> 0, to |-> 0, office |-> OfficeOf[r]] \in Rows
  BY <1>3 DEF Rows
<1>7. (CHOOSE w \in Rows : TRUE) \in Rows
  BY <1>6
<1>8. Idle \in Handler /\ Idle.pc = "idle"
  BY <1>1, <1>5 DEF Idle, Handler
<1>9. NoBooking \in [status : Statuses, row : Rows] /\ NoBooking.status = "NONE"
  BY <1>7 DEF NoBooking, Statuses
<1>10. QED
  BY <1>8, <1>9

\* The row written for a window is a row with that window, in the office of
\* its room.
LEMMA RowOfWindow ==
  ASSUME NEW w \in Windows
  PROVE  /\ RowOf(w) \in Rows
         /\ RowOf(w).room = w.room /\ RowOf(w).from = w.from /\ RowOf(w).to = w.to
         /\ RowOf(w).office = OfficeOf[w.room]
BY DEF RowOf, Rows, Windows

\* Only the window decides whether a row is legal.
LEMMA LegalRow ==
  ASSUME NEW w \in Windows, IsValidWindow(w)
  PROVE  IsValidWindow(RowOf(w))
BY RowOfWindow DEF IsValidWindow

-----------------------------------------------------------------------------
LEMMA InvInit == Init => Inv
<1> SUFFICES ASSUME Init PROVE Inv
  OBVIOUS
<1>0. overlapped \in BOOLEAN
  BY Zenon DEF Init
<1>1. TypeOK
  BY <1>0, RestingValues DEF Init, TypeOK, Times
<1>2. WindowsAreLegal /\ OfficeFollowsRoom
  BY RestingValues DEF Init, WindowsAreLegal, OfficeFollowsRoom
<1>3. HandlersAreLegal
  BY RestingValues DEF Init, HandlersAreLegal
<1>4. QED
  BY <1>1, <1>2, <1>3 DEF Inv

\* A step that leaves the bookings alone and gives one handler new locals,
\* legal ones, keeps the invariant.
LEMMA CheckKeepsInv ==
  ASSUME Inv, NEW h \in Handlers, NEW p \in Handler,
         p.pc \in {"create", "move"} => IsValidWindow(p.window),
         p.pc \in {"move", "cancel"} => booking[p.id].status # "NONE",
         proc' = [proc EXCEPT ![h] = p], MeetsAnother, UNCHANGED <<booking, active, now>>
  PROVE  Inv'
<1>1. TypeOK'
  BY DEF Inv, TypeOK, MeetsAnother
<1>2. WindowsAreLegal' /\ OfficeFollowsRoom'
  BY DEF Inv, WindowsAreLegal, OfficeFollowsRoom
<1>3. HandlersAreLegal'
  BY DEF Inv, TypeOK, HandlersAreLegal
<1>4. QED
  BY <1>1, <1>2, <1>3 DEF Inv

\* So does one that writes one booking, with the row of a legal window, and
\* puts the handler to rest.
LEMMA WriteKeepsInv ==
  ASSUME Inv, NEW h \in Handlers, NEW b \in Bookings, NEW s \in Statuses \ {"NONE"},
         NEW row \in Rows, IsValidWindow(row), row.office = OfficeOf[row.room],
         booking' = [booking EXCEPT ![b] = [status |-> s, row |-> row]],
         proc' = [proc EXCEPT ![h] = Idle], UNCHANGED <<active, now, overlapped>>
  PROVE  Inv'
<1>1. TypeOK'
  BY RestingValues DEF Inv, TypeOK
<1>2. \A c \in Bookings : booking'[c] = IF c = b THEN [status |-> s, row |-> row]
                                                 ELSE booking[c]
  BY DEF Inv, TypeOK
<1>3. WindowsAreLegal' /\ OfficeFollowsRoom'
  BY <1>2 DEF Inv, WindowsAreLegal, OfficeFollowsRoom
<1>4. HandlersAreLegal'
  <2> SUFFICES ASSUME NEW g \in Handlers, g # h
               PROVE  /\ proc'[g].pc \in {"create", "move"} => IsValidWindow(proc'[g].window)
                      /\ proc'[g].pc \in {"move", "cancel"}
                           => booking'[proc'[g].id].status # "NONE"
    BY RestingValues DEF Inv, TypeOK, HandlersAreLegal
  <2>1. proc'[g] = proc[g] /\ proc[g].id \in Bookings
    BY DEF Inv, TypeOK, Handler
  <2>2. QED
    BY <1>2, <2>1 DEF Inv, HandlersAreLegal
<1>5. QED
  BY <1>1, <1>3, <1>4 DEF Inv

\* Every step keeps the invariant.
LEMMA InvNext == Inv /\ [Next]_vars => Inv'
<1> SUFFICES ASSUME Inv, [Next]_vars PROVE Inv'
  OBVIOUS
<1>1. ASSUME NEW h \in Handlers, NEW w \in Windows, CheckCreate(h, w)
      PROVE  Inv'
  <2> DEFINE p == [Idle EXCEPT !.pc = "create", !.window = w]
  <2>1. p \in Handler /\ p.window = w /\ p.pc = "create"
    BY RestingValues DEF Handler
  <2>2. IsValidWindow(w) /\ proc' = [proc EXCEPT ![h] = p]
        /\ MeetsAnother /\ UNCHANGED <<booking, active, now>>
    BY <1>1 DEF CheckCreate
  <2> HIDE DEF p
  <2>3. QED
    BY <2>1, <2>2, CheckKeepsInv
<1>2. ASSUME NEW h \in Handlers, NEW b \in Bookings, Create(h, b)
      PROVE  Inv'
  <2>1. proc[h] \in Handler /\ proc[h].pc = "create"
    BY <1>2 DEF Create, Inv, TypeOK
  <2>2. proc[h].window \in Windows /\ IsValidWindow(proc[h].window)
    BY <2>1 DEF Inv, HandlersAreLegal, Handler
  <2>3. RowOf(proc[h].window) \in Rows /\ IsValidWindow(RowOf(proc[h].window))
        /\ RowOf(proc[h].window).office = OfficeOf[RowOf(proc[h].window).room]
    BY <2>2, RowOfWindow, LegalRow
  <2>4. /\ booking' = [booking EXCEPT ![b] = [status |-> "BOOKED", row |-> RowOf(proc[h].window)]]
        /\ proc' = [proc EXCEPT ![h] = Idle] /\ UNCHANGED <<active, now, overlapped>>
    BY <1>2 DEF Create
  <2>5. "BOOKED" \in Statuses \ {"NONE"}
    BY DEF Statuses
  <2>6. QED
    BY <2>3, <2>4, <2>5, WriteKeepsInv
<1>3. ASSUME NEW h \in Handlers, NEW b \in Bookings, NEW w \in Windows, CheckMove(h, b, w)
      PROVE  Inv'
  <2> DEFINE p == [pc |-> "move", id |-> b, window |-> w, given |-> Given(booking[b].row, w)]
  <2>1. p \in Handler /\ p.window = w /\ p.id = b
    BY DEF Handler, Given
  <2>2. IsValidWindow(w) /\ booking[b].status # "NONE" /\ proc' = [proc EXCEPT ![h] = p]
        /\ MeetsAnother /\ UNCHANGED <<booking, active, now>>
    BY <1>3 DEF CheckMove, CanBeMoved, Booked
  <2> HIDE DEF p
  <2>3. QED
    BY <2>1, <2>2, CheckKeepsInv
<1>4. ASSUME NEW h \in Handlers, Move(h)
      PROVE  Inv'
  <2> DEFINE p == proc[h]
             s == booking[p.id].status
  <2>1. p \in Handler /\ p.pc = "move"
    BY <1>4 DEF Move, Inv, TypeOK
  <2>2. p.window \in Windows /\ IsValidWindow(p.window) /\ p.id \in Bookings
    BY <2>1 DEF Inv, HandlersAreLegal, Handler
  <2>3. RowOf(p.window) \in Rows /\ IsValidWindow(RowOf(p.window))
        /\ RowOf(p.window).office = OfficeOf[RowOf(p.window).room]
    BY <2>2, RowOfWindow, LegalRow
  <2>4. s \in Statuses \ {"NONE"}
    BY <2>1, <2>2 DEF Inv, TypeOK, HandlersAreLegal
  <2>5. /\ booking' = [booking EXCEPT ![p.id] = [status |-> s, row |-> RowOf(p.window)]]
        /\ proc' = [proc EXCEPT ![h] = Idle] /\ UNCHANGED <<active, now, overlapped>>
    BY <1>4 DEF Move, MovedStatus, MovedRow
  <2> HIDE DEF p, s
  <2>6. QED
    BY <2>2, <2>3, <2>4, <2>5, WriteKeepsInv
<1>5. ASSUME NEW h \in Handlers, NEW b \in Bookings, CheckCancel(h, b)
      PROVE  Inv'
  <2> DEFINE p == [Idle EXCEPT !.pc = "cancel", !.id = b]
  <2>1. p \in Handler /\ p.pc = "cancel" /\ p.id = b
    BY RestingValues DEF Handler
  <2>2. booking[b].status # "NONE" /\ proc' = [proc EXCEPT ![h] = p]
        /\ MeetsAnother /\ UNCHANGED <<booking, active, now>>
    BY <1>5 DEF CheckCancel, Booked
  <2> HIDE DEF p
  <2>3. QED
    BY <2>1, <2>2, CheckKeepsInv
<1>6. ASSUME NEW h \in Handlers, Cancel(h)
      PROVE  Inv'
  <2> DEFINE b == proc[h].id
             row == booking[b].row
  <2>1. proc[h] \in Handler
    BY DEF Inv, TypeOK
  <2>2. b \in Bookings
    BY <2>1 DEF Handler
  <2>3. row \in Rows
    BY <2>2 DEF Inv, TypeOK
  <2>4. /\ booking' = [booking EXCEPT ![b] = [status |-> "CANCELLED", row |-> row]]
        /\ proc' = [proc EXCEPT ![h] = Idle] /\ UNCHANGED <<active, now, overlapped>>
    BY <1>6 DEF Cancel
  <2>5. booking[b].status # "NONE"
    BY <1>6 DEF Cancel, Inv, HandlersAreLegal
  <2>6. IsValidWindow(row) /\ row.office = OfficeOf[row.room]
    BY <2>2, <2>5 DEF Inv, WindowsAreLegal, OfficeFollowsRoom
  <2>7. "CANCELLED" \in Statuses \ {"NONE"}
    BY DEF Statuses
  <2> HIDE DEF b, row
  <2>8. QED
    BY <2>2, <2>3, <2>4, <2>6, <2>7, WriteKeepsInv
<1>7. ASSUME NEW r \in Rooms, NEW isActive \in BOOLEAN, SetActive(r, isActive)
      PROVE  Inv'
  BY <1>7 DEF SetActive, Inv, TypeOK, WindowsAreLegal, OfficeFollowsRoom, HandlersAreLegal
<1>8. ASSUME Tick
      PROVE  Inv'
  BY <1>8 DEF Tick, Times, Inv, TypeOK, WindowsAreLegal, OfficeFollowsRoom, HandlersAreLegal
<1>9. ASSUME UNCHANGED vars
      PROVE  Inv'
  BY <1>9 DEF vars, Inv, TypeOK, WindowsAreLegal, OfficeFollowsRoom, HandlersAreLegal
<1>10. QED
  BY <1>1, <1>2, <1>3, <1>4, <1>5, <1>6, <1>7, <1>8, <1>9 DEF Next
-----------------------------------------------------------------------------
(* Requests in turn *)

\* A clash is mutual, and a matter of the window a row was written for.
LEMMA ClashIsMutual ==
  ASSUME NEW w \in Windows, NEW r \in Rows
  PROVE  Clash(r, w) <=> Clash(r, RowOf(w)) /\ Clash(RowOf(w), r)
BY RowOfWindow DEF Clash, Rows, Windows

\* The handler that writes was the only one in flight: then all are at rest.
LEMMA WriteEndsTurn ==
  ASSUME Inv, OneInFlight, NEW h \in Handlers, proc[h].pc # "idle",
         proc' = [proc EXCEPT ![h] = Idle]
  PROVE  OneInFlight' /\ ChecksStillHold'
<1>1. \A g \in Handlers : proc'[g].pc = "idle"
  BY RestingValues DEF Inv, TypeOK, OneInFlight
<1>2. QED
  BY <1>1 DEF OneInFlight, ChecksStillHold

\* A request that meets no other is the only one in flight.
LEMMA CheckStartsTurn ==
  ASSUME Inv, NEW h \in Handlers, NEW p \in Handler, ~overlapped', MeetsAnother,
         p.pc = "create" => NoOverlap(p.window, Booked),
         p.pc = "move" => NoOverlap(p.window, Booked \ {p.id}),
         proc' = [proc EXCEPT ![h] = p], UNCHANGED booking
  PROVE  OneInFlight' /\ ChecksStillHold'
<1>1. \A g \in Handlers : proc'[g] = IF g = h THEN p ELSE proc[g]
  BY DEF Inv, TypeOK
<1>2. \A g \in Handlers : proc[g].pc = "idle"
  BY DEF MeetsAnother
<1>3. OneInFlight'
  BY <1>1, <1>2 DEF OneInFlight
<1>4. Booked' = Booked
  BY DEF Booked
<1>5. ChecksStillHold'
  BY <1>1, <1>2, <1>4 DEF ChecksStillHold, NoOverlap
<1>6. QED
  BY <1>3, <1>5

LEMMA TurnNext == Inv /\ InTurn /\ [Next]_vars => InTurn'
<1> SUFFICES ASSUME Inv, InTurn, [Next]_vars, ~overlapped'
             PROVE  OneInFlight' /\ NoDoubleBooking' /\ ChecksStillHold'
  BY DEF InTurn
<1>0. OneInFlight /\ NoDoubleBooking /\ ChecksStillHold
  BY DEF InTurn, Next, vars, CheckCreate, Create, CheckMove, Move, CheckCancel, Cancel,
         SetActive, Tick, MeetsAnother
<1>1. ASSUME NEW h \in Handlers, NEW w \in Windows, CheckCreate(h, w)
      PROVE  OneInFlight' /\ NoDoubleBooking' /\ ChecksStillHold'
  <2> DEFINE p == [Idle EXCEPT !.pc = "create", !.window = w]
  <2>1. p \in Handler /\ p.window = w /\ p.pc = "create"
    BY RestingValues DEF Handler
  <2>2. NoOverlap(w, Booked) /\ MeetsAnother /\ proc' = [proc EXCEPT ![h] = p]
        /\ UNCHANGED booking
    BY <1>1 DEF CheckCreate
  <2> HIDE DEF p
  <2>3. OneInFlight' /\ ChecksStillHold'
    BY <2>1, <2>2, CheckStartsTurn
  <2>4. NoDoubleBooking'
    BY <1>0, <2>2 DEF NoDoubleBooking, Booked
  <2>5. QED
    BY <2>3, <2>4
<1>2. ASSUME NEW h \in Handlers, NEW b \in Bookings, Create(h, b)
      PROVE  OneInFlight' /\ NoDoubleBooking' /\ ChecksStillHold'
  <2> DEFINE w == proc[h].window
  <2>1. w \in Windows /\ NoOverlap(w, Booked)
    BY <1>0, <1>2 DEF Create, Inv, TypeOK, Handler, ChecksStillHold
  <2>2. \A c \in Bookings : booking'[c] = IF c = b THEN [status |-> "BOOKED", row |-> RowOf(w)]
                                                   ELSE booking[c]
    BY <1>2 DEF Create, Inv, TypeOK
  <2> HIDE DEF w
  <2>3. \A c \in Booked : c # b /\ booking[c].row \in Rows
    BY <1>2 DEF Create, Booked, Inv, TypeOK
  <2>4. \A c \in Booked : ~Clash(booking[c].row, RowOf(w)) \/ ~Clash(RowOf(w), booking[c].row)
    BY <2>1, <2>3, ClashIsMutual DEF NoOverlap
  <2>5. \A c \in Booked : ~Clash(booking[c].row, RowOf(w)) /\ ~Clash(RowOf(w), booking[c].row)
    BY <2>1, <2>3, <2>4, RowOfWindow DEF Clash, Rows
  <2>6. Booked' \subseteq Booked \cup {b}
    BY <2>2 DEF Booked
  <2>7. \A c \in Bookings : booking'[c].row = IF c = b THEN RowOf(w) ELSE booking[c].row
    BY <2>2
  <2>8. Booked \subseteq Bookings
    BY DEF Booked
  <2>9. NoDoubleBooking'
    BY <1>0, <2>3, <2>5, <2>6, <2>7, <2>8 DEF NoDoubleBooking
  <2>10. OneInFlight' /\ ChecksStillHold'
    BY <1>0, <1>2, WriteEndsTurn DEF Create
  <2>11. QED
    BY <2>9, <2>10
<1>3. ASSUME NEW h \in Handlers, NEW b \in Bookings, NEW w \in Windows, CheckMove(h, b, w)
      PROVE  OneInFlight' /\ NoDoubleBooking' /\ ChecksStillHold'
  <2> DEFINE p == [pc |-> "move", id |-> b, window |-> w, given |-> Given(booking[b].row, w)]
  <2>1. p \in Handler /\ p.window = w /\ p.id = b /\ p.pc = "move"
    BY DEF Handler, Given
  <2>2. NoOverlap(w, Booked \ {b}) /\ MeetsAnother /\ proc' = [proc EXCEPT ![h] = p]
        /\ UNCHANGED booking
    BY <1>3 DEF CheckMove
  <2> HIDE DEF p
  <2>3. OneInFlight' /\ ChecksStillHold'
    BY <2>1, <2>2, CheckStartsTurn
  <2>4. NoDoubleBooking'
    BY <1>0, <2>2 DEF NoDoubleBooking, Booked
  <2>5. QED
    BY <2>3, <2>4
<1>4. ASSUME NEW h \in Handlers, Move(h)
      PROVE  OneInFlight' /\ NoDoubleBooking' /\ ChecksStillHold'
  <2> DEFINE w == proc[h].window
             b == proc[h].id
  <2>1. w \in Windows /\ b \in Bookings /\ NoOverlap(w, Booked \ {b})
    BY <1>0, <1>4 DEF Move, Inv, TypeOK, Handler, ChecksStillHold
  <2>2. booking' = [booking EXCEPT ![b] = [status |-> booking[b].status, row |-> RowOf(w)]]
    BY <1>4 DEF Move, MovedStatus, MovedRow
  <2> HIDE DEF w, b
  <2>3. \A c \in Bookings : /\ booking'[c].status = booking[c].status
                            /\ booking'[c].row = IF c = b THEN RowOf(w) ELSE booking[c].row
    BY <2>1, <2>2 DEF Inv, TypeOK
  <2>4. \A c \in Booked : booking[c].row \in Rows
    BY DEF Booked, Inv, TypeOK
  <2>5. \A c \in Booked \ {b} : ~Clash(booking[c].row, RowOf(w)) \/ ~Clash(RowOf(w), booking[c].row)
    BY <2>1, <2>4, ClashIsMutual DEF NoOverlap
  <2>6. \A c \in Booked \ {b} : ~Clash(booking[c].row, RowOf(w)) /\ ~Clash(RowOf(w), booking[c].row)
    BY <2>1, <2>4, <2>5, RowOfWindow DEF Clash, Rows
  <2>7. Booked' = Booked
    BY <2>3 DEF Booked
  <2>8. Booked \subseteq Bookings
    BY DEF Booked
  <2>9. NoDoubleBooking'
    BY <1>0, <2>3, <2>6, <2>7, <2>8 DEF NoDoubleBooking
  <2>10. OneInFlight' /\ ChecksStillHold'
    BY <1>0, <1>4, WriteEndsTurn DEF Move
  <2>11. QED
    BY <2>9, <2>10
<1>5. ASSUME NEW h \in Handlers, NEW b \in Bookings, CheckCancel(h, b)
      PROVE  OneInFlight' /\ NoDoubleBooking' /\ ChecksStillHold'
  <2> DEFINE p == [Idle EXCEPT !.pc = "cancel", !.id = b]
  <2>1. p \in Handler /\ p.pc = "cancel"
    BY RestingValues DEF Handler
  <2>2. MeetsAnother /\ proc' = [proc EXCEPT ![h] = p] /\ UNCHANGED booking
    BY <1>5 DEF CheckCancel
  <2> HIDE DEF p
  <2>3. OneInFlight' /\ ChecksStillHold'
    BY <2>1, <2>2, CheckStartsTurn
  <2>4. NoDoubleBooking'
    BY <1>0, <2>2 DEF NoDoubleBooking, Booked
  <2>5. QED
    BY <2>3, <2>4
<1>6. ASSUME NEW h \in Handlers, Cancel(h)
      PROVE  OneInFlight' /\ NoDoubleBooking' /\ ChecksStillHold'
  <2> DEFINE b == proc[h].id
  <2>1. b \in Bookings
    BY DEF Inv, TypeOK, Handler
  <2>2. booking' = [booking EXCEPT ![b] = [status |-> "CANCELLED", row |-> booking[b].row]]
    BY <1>6 DEF Cancel
  <2> HIDE DEF b
  <2>3. \A c \in Bookings : /\ booking'[c].row = booking[c].row
                            /\ booking'[c].status = "BOOKED" => booking[c].status = "BOOKED"
    BY <2>1, <2>2 DEF Inv, TypeOK
  <2>4. NoDoubleBooking'
    BY <1>0, <2>3 DEF NoDoubleBooking, Booked
  <2>5. OneInFlight' /\ ChecksStillHold'
    BY <1>0, <1>6, WriteEndsTurn DEF Cancel
  <2>6. QED
    BY <2>4, <2>5
<1>7. ASSUME UNCHANGED <<booking, proc>>
      PROVE  OneInFlight' /\ NoDoubleBooking' /\ ChecksStillHold'
  BY <1>0, <1>7 DEF OneInFlight, NoDoubleBooking, ChecksStillHold, NoOverlap, Booked
<1>8. QED
  BY <1>1, <1>2, <1>3, <1>4, <1>5, <1>6, <1>7 DEF Next, SetActive, Tick, vars

-----------------------------------------------------------------------------
(* Theorems *)

LEMMA Invariance == Spec => []Inv
BY InvInit, InvNext, PTL DEF Spec

\* The tables and the handlers hold values the code can give them.
THEOREM TypeCorrect == Spec => []TypeOK
BY Invariance, PTL DEF Inv

\* However two moves interleave, a booking's window is one that could have been
\* asked for (assertValidWindow).
THEOREM WindowsStayLegal == Spec => []WindowsAreLegal
BY Invariance, PTL DEF Inv

\* However two moves interleave, the office stored is that of the room
\* (reschedule writes both).
THEOREM OfficeStaysWithRoom == Spec => []OfficeFollowsRoom
BY Invariance, PTL DEF Inv

\* However moves, bookings and cancellations interleave, every row stays typed,
\* with a legal window, in the office of its room.
THEOREM BookingsStayLegal == Spec => []BookingsAreLegal
BY Invariance, PTL DEF Inv, BookingsAreLegal

\* A move that was checked before a cancellation does not undo it.
THEOREM CancelledStaysCancelled == Spec => CancelledIsFinal
<1>1. Inv /\ [Next]_vars =>
        [\A b \in Bookings :
           booking[b].status = "CANCELLED" => booking'[b].status = "CANCELLED"]_vars
  <2> SUFFICES ASSUME Inv, Next, NEW b \in Bookings, booking[b].status = "CANCELLED"
               PROVE  booking'[b].status = "CANCELLED"
    OBVIOUS
  <2>1. CASE UNCHANGED booking
    BY <2>1
  <2>2. ASSUME NEW h \in Handlers, NEW c \in Bookings, Create(h, c)
        PROVE  booking'[b].status = "CANCELLED"
    BY <2>2 DEF Create, Inv, TypeOK
  <2>3. ASSUME NEW h \in Handlers, Move(h)
        PROVE  booking'[b].status = "CANCELLED"
    BY <2>3 DEF Move, MovedStatus, Inv, TypeOK
  <2>4. ASSUME NEW h \in Handlers, Cancel(h)
        PROVE  booking'[b].status = "CANCELLED"
    BY <2>4 DEF Cancel, Inv, TypeOK
  <2>5. QED
    BY <2>1, <2>2, <2>3, <2>4
    DEF Next, CheckCreate, CheckMove, CheckCancel, SetActive, Tick
<1>2. QED
  BY <1>1, Invariance, PTL DEF CancelledIsFinal, Spec

\* While requests are handled one after the other, the check made before the
\* transaction (assertNoOverlap) is enough: no room is booked twice for the same
\* time, whatever is booked, moved and cancelled.
THEOREM BookingsInTurnDoNotClash == Spec => []NoDoubleBookingInTurn
<1>1. Init => InTurn
  BY RestingValues DEF Init, InTurn, OneInFlight, NoDoubleBooking, ChecksStillHold, Booked
<1>2. InTurn => NoDoubleBookingInTurn
  BY DEF InTurn, NoDoubleBookingInTurn
<1>3. QED
  BY <1>1, <1>2, TurnNext, Invariance, PTL DEF Spec
=============================================================================
