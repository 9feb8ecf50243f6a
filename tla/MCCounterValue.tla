--------------------------- MODULE MCCounterValue ---------------------------
(***************************************************************************)
(* CounterValue with samples and sizes of both signs, at the edges of a    *)
(* LONGLONG and a DWORD of few values.                                     *)
(***************************************************************************)
EXTENDS CounterValue

(* The largest and the least differ by more than a LONGLONG holds, the     *)
(* largest and the next by a little less.                                  *)
MCSamples == {-2200000, -2190000, 0, 1, 90, 4000, 2000000}

(* Times and sizes around each change of unit, and what a DWORD makes of   *)
(* numbers it does not hold.                                               *)
MCNumbers == {0, 1, 63, 64, 65, 999, 1000, 1001, 4095, 4096, 4097, 59999, 60000, 60001,
              262143, 262144, 265421, 3599999, 3600000, 3661000, 4194303, -1, -4194304}
=============================================================================
