------------------------------ MODULE MCAioPerf -----------------------------
(***************************************************************************)
(* Two flows that each queue a full and a partial piece.                   *)
(***************************************************************************)
EXTENDS AioPerf
=============================================================================
