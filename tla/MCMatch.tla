-------------------------------- MODULE MCMatch --------------------------------
(* Match on small racks: one or two solids, as many stripes, and the 8-ball. *)
EXTENDS Match

MCSolids == {1}
MCStripes == {9}
MCTwoSolids == {1, 2}
MCTwoStripes == {9, 10}
MCReports == {Unreported, 0, 3, 4}
MCClientReports == {Unreported}
================================================================================
