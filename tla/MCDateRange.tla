---------------------------- MODULE MCDateRange ----------------------------
(* Instances of DateRange for TLC: every pair of dates of a short year. *)
EXTENDS DateRange

AllZones == [skipped : Day \cup {None}, side : {"east", "west"}]
=============================================================================
