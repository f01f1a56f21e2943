------------------------------ MODULE MCLeave ------------------------------
(***************************************************************************)
(* Leave years of two days, a carry-over of one year and an entitlement of *)
(* two half-days: enough for a bucket to be earned, carried over, drawn on *)
(* together with the next and expired.                                     *)
(***************************************************************************)
EXTENDS LeaveProperties

Half(d, h) == <<d, h>>

Full(d) == {Half(d, "MORNING"), Half(d, "AFTERNOON")}

\* Leave that counts: a morning, a full day that meets it, and three half-days
\* over a day of rest; and an afternoon that does not count.
SmallSpans ==
  {[first |-> 1, last |-> 1, slots |-> {Half(1, "MORNING")}, tracked |-> TRUE],
   [first |-> 1, last |-> 1, slots |-> Full(1), tracked |-> TRUE],
   [first |-> 1, last |-> 1, slots |-> {Half(1, "AFTERNOON")}, tracked |-> FALSE],
   [first |-> 2, last |-> 4, slots |-> Full(2) \cup {Half(4, "MORNING")}, tracked |-> TRUE]}

MorningSpan == {[first |-> 1, last |-> 1, slots |-> {Half(1, "MORNING")}, tracked |-> TRUE]}

AddOrTake == {-1, 1}
=============================================================================
