------------------------------ MODULE QuicReset ------------------------------
(***************************************************************************)
(* reset_counts.py under traffic: how far the packet register and the byte *)
(* counter drift apart.  Both count every QUIC packet, in both directions, *)
(* but the script clears them in two driver calls, and a packet processed  *)
(* between the two is in the register only.                                *)
(***************************************************************************)
EXTENDS QuicSwitch

VARIABLE window   \* history: slot -> QUIC packets it counted between the first
                  \* two clears of the last reset_counts.py

resetVars == <<vars, window>>

InWindow(p) == IF Quic(p) /\ shell = "clr_pkt"
               THEN [window EXCEPT ![CtrOf(flow_id(p))] = @ + 1]
               ELSE window

ResetInit == Init /\ window = [c \in Ctrs |-> 0]

ResetNext ==
  \/ \E p \in Packets : Process(p) /\ window' = InWindow(p)
  \/ ResetPktCount /\ window' = [c \in Ctrs |-> 0]
  \/ /\ \/ Deliver \/ Setup \/ ResetFlowBytes \/ ResetLens
        \/ \E len \in Arms : SetArm(len)
     /\ UNCHANGED window

\* The driver delivers what it holds, and a batch script runs to its end.
ResetSpec == /\ ResetInit /\ [][ResetNext]_resetVars
             /\ WF_vars(Deliver) /\ WF_vars(ScriptStep)

-----------------------------------------------------------------------------
(* Properties *)

Folded(c) == {b \in Buckets : CtrOf(b) = c}

\* A counter slot and the register buckets folded onto it agree to the packet,
\* save for the packets of reset_counts.py's window: after the second clear the
\* register leads by exactly those, until the next reset; between the first two
\* clears the register holds exactly those and the slot all it held before as
\* well.  (As long as no register cell can have wrapped.)
CountersAgree ==
  npackets < CntMod => \A c \in Ctrs :
     LET sum == SumFunctionOnSet(quic_pkt_count, Folded(c))
     IN IF shell = "clr_pkt" THEN sum = window[c] /\ sum <= quic_flow_pkts[c]
                             ELSE sum = quic_flow_pkts[c] + window[c]
=============================================================================
