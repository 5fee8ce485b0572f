------------------------------ MODULE MCCidlen ------------------------------
(***************************************************************************)
(* Two lengths, one of them the one with an original run; sweeps of two    *)
(* targets.                                                                *)
(***************************************************************************)
EXTENDS CidlenSweep

MCLens == <<4, 8>>
=============================================================================
