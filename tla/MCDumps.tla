------------------------------ MODULE MCDumps -------------------------------
(***************************************************************************)
(* QuicViews, and with it QuicDumps, under the traffic of one connection,  *)
(* whose client's Initial carries a random 10-byte DCID.                   *)
(***************************************************************************)
EXTENDS QuicViews, SequencesExt

\* A field that shows cid, followed by the byte x of ciphertext.
Field(cid, x) == [i \in 1 .. DcidBytes |-> IF i <= Len(cid) THEN cid[i] ELSE x]

Up(cid, x, form, ltype) ==
  [port |-> 136, ether |-> "ipv4", proto |-> "udp",
   src |-> 1, dst |-> 2, sp |-> 7, dp |-> 443, form |-> form, ltype |-> ltype,
   dcid_len |-> IF form = "long" THEN Len(cid) ELSE 0,
   dcid |-> Field(cid, x), cid |-> cid, bytes |-> 1]
Down(cid, x, form, ltype) ==
  [Up(cid, x, form, ltype) EXCEPT !.port = 128, !.src = 2, !.dst = 1,
                                  !.sp = 443, !.dp = 7, !.bytes = 2]

InitialCid == <<9, 9, 9, 9, 9, 9, 9, 9, 9, 9>>
ServerCid == <<3, 1, 4, 1>>
ClientCid == <<2, 7>>

MCPackets ==
  { Up(InitialCid, 1, "long", 0),
    Up(ServerCid, 1, "long", 2),
    Up(ServerCid, 2, "short", 0),
    Down(ClientCid, 3, "short", 0) }

MCCRC16(tuple) == tuple[1] + tuple[3]
MCCRC32(b) == b[1] + 3 * b[2] + 4 * b[4] + 7 * b[5] + 2 * b[9] + 3 * b[20]
=============================================================================
