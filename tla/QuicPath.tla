------------------------------ MODULE QuicPath ------------------------------
(***************************************************************************)
(* The switch in a measurement wave, and the per-connection accounting it  *)
(* implements there.                                                       *)
(*                                                                         *)
(* The drivers (run_sweep.sh, run_overload.sh) select an arm, run          *)
(* reset_counts.py to its end while no client is running, let the clients  *)
(* open connections, and read the registers when they have exited.  Within *)
(* a wave an endpoint sends a short header only after its Handshake packet *)
(* has crossed the switch.  Under that discipline, in the length-aware     *)
(* arm and without hash collisions, the registers are exactly the counts   *)
(* of QuicFlowCount.                                                       *)
(***************************************************************************)
EXTENDS QuicSwitch

VARIABLES
  open,     \* 4-tuples whose Handshake the switch has seen in this wave
  crossed   \* history: the QUIC packets sent through it, as <<cid, size>>

waveVars == <<open, crossed>>
pathVars == <<vars, waveVars>>

Cids == {p.cid : p \in {q \in Packets : Quic(q)}}
Sizes == {p.bytes : p \in Packets}

\* The connection IDs fit the field, and no two share a counter slot.
ASSUME CidAssumption ==
  /\ \A c \in Cids : Len(c) <= DcidBytes
  /\ \A c, d \in Cids : CtrOf(CidBucket(c)) = CtrOf(CidBucket(d)) => c = d

\* No flow's learned length is overwritten by a flow with another length.
ASSUME KeyAssumption == \A p \in Packets : Short(p) => Unshared(p)

\* No register cell wraps within a behaviour.
ASSUME NoWrapAssumption == MaxPackets < CntMod

Resetting == shell \in {"clr_pkt", "clr_bytes"}

\* A client or server packet of the wave crosses the switch.
Send(p) == /\ ~Resetting
           /\ Short(p) => flow_tuple(p) \in open
           /\ Process(p)
           /\ open' = IF Handshake(p) THEN open \cup {flow_tuple(p)} ELSE open
           /\ crossed' = IF Quic(p) THEN Append(crossed, <<p.cid, p.bytes>>) ELSE crossed

\* A connection ends; its 4-tuple sends no more short headers.
Close(f) == /\ open' = open \ {f}
            /\ UNCHANGED <<vars, crossed>>

\* The driver resets between waves only.
WaveReset == \/ open = {} /\ ResetPktCount /\ UNCHANGED waveVars
             \/ (ResetFlowBytes \/ ResetLens) /\ UNCHANGED waveVars

PathInit == Init /\ open = {} /\ crossed = <<>>

PathNext == \/ \E p \in Packets : Send(p)
            \/ \E f \in open : Close(f)
            \/ WaveReset
            \/ (Setup \/ SetArm(0) \/ Deliver) /\ UNCHANGED waveVars

PathSpec == PathInit /\ [][PathNext]_pathVars

-----------------------------------------------------------------------------
(* Properties *)

Flow == INSTANCE QuicFlowCount
          WITH count <- [c \in Cids |-> quic_pkt_count[CidBucket(c)]],
               bytes <- [c \in Cids |-> quic_flow_bytes[CtrOf(CidBucket(c))]]

\* The registers implement per-connection-ID counting: the step in which a QUIC
\* packet crosses adds one and its size to the connection ID that packet carries
\* and to no other, no packet crosses uncounted, and only a reset clears.
CountsPerCid == Flow!Spec

\* The strengthening the refinement rests on: an open flow's length is in the
\* register, resets meet no open flow, and no cell has outrun the packets.
PathInv ==
  /\ force_len = 0
  /\ Resetting => open = {}
  /\ \A p \in Packets :
        Short(p) /\ flow_tuple(p) \in open =>
           dcid_len_reg[flow_key(p)] = Len(p.cid)
  /\ \A b \in Buckets : quic_pkt_count[b] <= npackets
=============================================================================
