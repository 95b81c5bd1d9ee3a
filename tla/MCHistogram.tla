---------------------------- MODULE MCHistogram ----------------------------
(***************************************************************************)
(* Histogram with two finite bounds, so that a value can fall on a bound,   *)
(* between two and beyond the last.                                         *)
(***************************************************************************)
EXTENDS Histogram

MCBounds == <<10, 20>>
=============================================================================
