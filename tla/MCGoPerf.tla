------------------------------ MODULE MCGoPerf ------------------------------
(***************************************************************************)
(* Two flows, one with less than a chunk to move and one with more.        *)
(***************************************************************************)
EXTENDS GoPerf

MCFlowSize == [f \in {0, 1} |-> 2 * f + 1]
=============================================================================
