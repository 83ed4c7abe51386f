----------------------------- MODULE MCExecutor -----------------------------
(* Values for the constants of Executor in the model-checking runs.         *)
EXTENDS Executor

Printed(run, failures, errors, skipped) ==
    [run |-> run, failures |-> failures, errors |-> errors, skipped |-> skipped]

(* No test; all passed; one of three failed; one error and one skipped test *)
(* of three; 12.5 and 57.5 percent; a test counted twice.                   *)
SomeSummaries ==
    { Printed(0, 0, 0, 0), Printed(1, 0, 0, 0), Printed(3, 1, 0, 0), Printed(3, 0, 1, 1),
      Printed(8, 4, 2, 1), Printed(40, 15, 1, 1), Printed(1, 1, 1, 0) }

(* The n from -200 to 200, as IEEE 754 doubles have them.                   *)
DoubleShortTies == {29, 57, 113, 115} \cup {-7, -55, -109, -111}
=============================================================================
