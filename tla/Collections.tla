---------------------------- MODULE Collections ----------------------------
(***************************************************************************)
(* Sums of the values of a function, as they are taken of scores, points   *)
(* and frequencies.                                                        *)
(***************************************************************************)
EXTENDS FiniteSetsExt

TotalOf(f, S) == MapThenSumSet(LAMBDA x : f[x], S)

=============================================================================
