----------------------------- MODULE MCKitchen -----------------------------
(* Model values for Kitchen. *)
EXTENDS Kitchen, TLC

CONSTANTS o1, r1, r2, r3, a, b

MCBills == {<< <<a, 1>> >>, << <<a, 2>>, <<b, 1>> >>, << <<b, 1>> >>, << <<a, 1>>, <<a, 2>> >>,
            << <<a, 0>>, <<b, 1>> >>}

=============================================================================
