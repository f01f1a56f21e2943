SPECIFICATION Spec
CONSTANTS
  Rooms = {a, b}
  Offices = {a, b}
  OfficeOf <- InOwnOffice
  Bookings = {b1, b2}
  Handlers = {h1, h2}
  LastTime = 2
  MinMinutes = 1
  MaxMinutes = 2
  Grace = 0
SYMMETRY Interchangeable
INVARIANTS
  BookingsAreLegal
  NoDoubleBookingInTurn
CHECK_DEADLOCK FALSE
