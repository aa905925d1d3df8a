--------------------------- MODULE MCStreamFraming ---------------------------
(* Model-checking instance of StreamFraming: the configuration gives its      *)
(* constants their values.                                                    *)
EXTENDS StreamFraming
=============================================================================
