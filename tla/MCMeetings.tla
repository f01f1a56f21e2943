----------------------------- MODULE MCMeetings -----------------------------
(***************************************************************************)
(* Two rooms, in different offices, and a day of a few quarters of an hour *)
(* in which a meeting takes one or two.                                    *)
(***************************************************************************)
EXTENDS MeetingProperties, TLC

InOwnOffice == [r \in Rooms |-> r]

Interchangeable == Permutations(Handlers)
=============================================================================
