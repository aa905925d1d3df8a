---------------------------- MODULE MCBinFilter ----------------------------
(* Model-checking instances of BinFilter: a counter of a few ticks that wraps *)
(* many times; a time-out, two readings at the full end of the bin within the *)
(* outlier threshold of each other, and one beyond the empty end.             *)
EXTENDS BinFilter

SpreadReadings == {-1, 5, 9, 41}
=============================================================================
