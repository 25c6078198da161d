---------------------------- MODULE MCCdbCommand ----------------------------
(***************************************************************************)
(* Three calls over a payload area of two blocks.  With a poll interval of *)
(* 2500 ms a wait is of two polls for the 5000 ms fallback and of one for  *)
(* the shortest times a module can advertise, which stands for the up to   *)
(* 500 polls of the code.                                                  *)
(***************************************************************************)
EXTENDS CdbCommand

MCKinds == { [blocks |-> 0, reply |-> TRUE],
             [blocks |-> 1, reply |-> TRUE],
             [blocks |-> 2, reply |-> FALSE] }

\* Short method at its ends, a zero and an over-range time, extended method.
MCAdverts == { <<0, 0>>, <<0, 80>>, <<0, 127>>, <<0, 128>>, <<31, 128>> }
=============================================================================
