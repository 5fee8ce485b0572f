------------------------------- MODULE MCPcap -------------------------------
(***************************************************************************)
(* PcapBuckets and GroundTruth on captures of one connection: a random     *)
(* Initial DCID, both directions' Handshake and short headers, an empty ID *)
(* of a second client, and a UDP packet that is not QUIC.  The IDs of the  *)
(* two directions share a bucket; the server's Handshake is one of two     *)
(* packets in its datagram.  tshark leaves the short headers of a capture  *)
(* without an Initial blank.                                               *)
(***************************************************************************)
EXTENDS GroundTruth, SequencesExt

Field(cid, x) == [i \in 1 .. DcidBytes |-> IF i <= Len(cid) THEN cid[i] ELSE x]

Up(cid, x, form, ltype) ==
  [port |-> 136, ether |-> "ipv4", proto |-> "udp",
   src |-> 1, dst |-> 2, sp |-> 7, dp |-> 443, form |-> form, ltype |-> ltype,
   dcid_len |-> IF form = "long" THEN Len(cid) ELSE 0,
   dcid |-> Field(cid, x), cid |-> cid, bytes |-> 1]
Down(cid, x, form, ltype) ==
  [Up(cid, x, form, ltype) EXCEPT !.port = 128, !.src = 2, !.dst = 1,
                                  !.sp = 443, !.dp = 7, !.bytes = 2]

InitialCid == [i \in 1 .. DcidBytes |-> 9]
ServerCid == <<3, 1, 4, 1>>
ClientCid == <<1, 3>>   \* in the bucket of ServerCid

MCPackets ==
  { Up(InitialCid, 1, "long", 0),
    Up(ServerCid, 1, "long", 2),
    Up(ServerCid, 2, "short", 0),
    Down(ClientCid, 1, "long", 2),
    Down(ClientCid, 3, "short", 0),
    [Down(<<>>, 5, "long", 2) EXCEPT !.dp = 9],
    [Up(ServerCid, 3, "long", 2) EXCEPT !.dp = 80] }

MCCRC16(tuple) == tuple[1] + tuple[4]
MCCRC32(b) == b[1] + 3 * b[2] + 4 * b[4] + 7 * b[5] + 2 * b[9] + 3 * b[20]
\* tshark follows a connection whose Initial it has seen.
MCTracked(c, i) == \E j \in 1 .. i - 1 : Long(c[j]) /\ c[j].ltype = 0
MCCoalesced(p) == IF Handshake(p) /\ p.cid = ClientCid THEN 1 ELSE 0

\* The traffic meets the hypotheses of the theorems about the replica.
ASSUME TrafficAssumption == Comparable /\ OwnKeys
=============================================================================
