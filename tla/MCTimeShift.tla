---------------------------- MODULE MCTimeShift -----------------------------
(***************************************************************************)
(* An instance of the delay with a clock that is set forth, back, and by   *)
(* more than the delay.                                                    *)
(***************************************************************************)
EXTENDS TimeShift

MCSetting == {-5, -1, 2}
=============================================================================
