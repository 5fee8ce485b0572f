------------------------------ MODULE QuicMask ------------------------------
(***************************************************************************)
(* The DCID field and the mask that cuts it to its effective length.       *)
(*                                                                         *)
(* The parser always extracts 20 bytes after the QUIC header, whatever the *)
(* length of the connection ID: the bytes behind the CID are ciphertext.   *)
(* mask_tbl maps an effective length to five 32-bit masks, and set_mask    *)
(* ANDs the five slices of the field with them.  A mask is abstracted to   *)
(* the number of leading 0xff bytes it has (0 .. 4): every mask of the     *)
(* table is a run of 0xff followed by a run of 0x00.                       *)
(***************************************************************************)
EXTENDS Naturals, Sequences

DcidBytes == 20   \* width of hdr.quic_long.dcid and hdr.quic_short.dcid
SliceBytes == 4   \* width of one slice of set_mask

\* A byte, the 20-byte field, and a connection ID (an RFC 8999 length byte
\* allows up to 255 bytes; the field shows the first 20).
Byte == 0 .. 255
Dcid == [1 .. DcidBytes -> Byte]

(***************************************************************************)
(* The const entries of mask_tbl, row L + 1 for effective length L, as the *)
(* number of 0xff bytes in each of m0 .. m4.                               *)
(***************************************************************************)
mask_tbl ==
  << <<0, 0, 0, 0, 0>>,
     <<1, 0, 0, 0, 0>>, <<2, 0, 0, 0, 0>>, <<3, 0, 0, 0, 0>>, <<4, 0, 0, 0, 0>>,
     <<4, 1, 0, 0, 0>>, <<4, 2, 0, 0, 0>>, <<4, 3, 0, 0, 0>>, <<4, 4, 0, 0, 0>>,
     <<4, 4, 1, 0, 0>>, <<4, 4, 2, 0, 0>>, <<4, 4, 3, 0, 0>>, <<4, 4, 4, 0, 0>>,
     <<4, 4, 4, 1, 0>>, <<4, 4, 4, 2, 0>>, <<4, 4, 4, 3, 0>>, <<4, 4, 4, 4, 0>>,
     <<4, 4, 4, 4, 1>>, <<4, 4, 4, 4, 2>>, <<4, 4, 4, 4, 3>>, <<4, 4, 4, 4, 4>> >>

\* Mutant of Row: the table indexed one row too low.
Row_OffByOne(eff_len) ==
  IF eff_len \in DOMAIN mask_tbl THEN mask_tbl[eff_len] ELSE <<0, 0, 0, 0, 0>>

\* The row that matches eff_len; the default action masks everything.
Row(eff_len) ==
  IF eff_len + 1 \in DOMAIN mask_tbl THEN mask_tbl[eff_len + 1]
                                     ELSE <<0, 0, 0, 0, 0>>

\* set_mask: byte i of the field survives iff its slice's mask covers it.
set_mask(dcid, row) ==
  [i \in 1 .. DcidBytes |->
     IF (i - 1) % SliceBytes < row[((i - 1) \div SliceBytes) + 1]
     THEN dcid[i] ELSE 0]

\* meta.masked_dcid, the hash input.
Masked(dcid, eff_len) == set_mask(dcid, Row(eff_len))

\* What the masking is for: the CID padded with zeros to 20 bytes.
Padded(cid) == [i \in 1 .. DcidBytes |-> IF i <= Len(cid) THEN cid[i] ELSE 0]

\* The field shows the connection ID: it starts with the (first 20) bytes of it.
Shows(dcid, cid) == \A i \in 1 .. DcidBytes : i <= Len(cid) => dcid[i] = cid[i]
=============================================================================
