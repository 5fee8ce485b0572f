------------------------------- MODULE MCMonitor -----------------------------
(***************************************************************************)
(* QuicMonitor on one connection (both directions).  The switch has eight  *)
(* counter slots and the monitor folds to four, in the ratio's sense of    *)
(* the code (32768 and 1024).  LowPackets hash below the fold and change   *)
(* to the server's second connection ID in mid-stream; AllPackets adds a   *)
(* client Initial that hashes above the fold.                              *)
(***************************************************************************)
EXTENDS QuicMonitor, SequencesExt

Field(cid, x) == [i \in 1 .. DcidBytes |-> IF i <= Len(cid) THEN cid[i] ELSE x]

Up(cid, x, form, ltype) ==
  [port |-> 136, ether |-> "ipv4", proto |-> "udp",
   src |-> 1, dst |-> 2, sp |-> 7, dp |-> 443, form |-> form, ltype |-> ltype,
   dcid_len |-> IF form = "long" THEN Len(cid) ELSE 0,
   dcid |-> Field(cid, x), cid |-> cid, bytes |-> 1]
Down(cid, x, form, ltype) ==
  [Up(cid, x, form, ltype) EXCEPT !.port = 128, !.src = 2, !.dst = 1,
                                  !.sp = 443, !.dp = 7, !.bytes = 2]

InitialCid == <<7, 7, 7, 7, 7, 7, 7, 7, 7, 7>>
ServerCid == <<3, 1, 4, 1>>
ClientCid == <<2, 3>>
NextCid == <<1, 0, 4, 0>>

LowPackets ==
  { Up(ServerCid, 1, "long", 2),
    Up(ServerCid, 2, "short", 0),
    Up(NextCid, 2, "short", 0),
    Down(ClientCid, 1, "long", 2) }

AllPackets == LowPackets \cup {Up(InitialCid, 1, "long", 0)}

MCCRC16(tuple) == tuple[1] + tuple[4]
MCCRC32(b) == b[1] + 3 * b[2] + 4 * b[4] + 7 * b[5] + 2 * b[9] + 4 * b[20]
=============================================================================
