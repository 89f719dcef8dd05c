----------------------------- MODULE MCDayBook -----------------------------
(* Model values for DayBook. *)
EXTENDS DayBook, TLC

CONSTANTS o1, o2, o3

MCSymmetry == Permutations(Orders)
=============================================================================
