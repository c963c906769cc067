---------------------------- MODULE MCStatusStamp ----------------------------
(* Small instance of StatusStamp: a clock that may jump in both directions,  *)
(* a block of two stamps, and an i64 of ten values so that saturation is     *)
(* reached.                                                                  *)
EXTENDS StatusStamp

MCClock == {0, 3, 7}
==============================================================================
