------------------------------ MODULE MCBytes -------------------------------
(***************************************************************************)
(* Two flows of one byte, 2-byte IDs in three buckets of which two fold    *)
(* into one counter slot, every ID followed by two different               *)
(* ciphertexts in the field.                                               *)
(***************************************************************************)
EXTENDS ByteParity

MCIds == {<<1, 3>>, <<3, 1>>, <<2, 4>>, <<2, 3>>}
MCFields == {[i \in 1 .. DcidBytes |-> IF i <= 2 THEN id[i] ELSE x] :
               id \in MCIds, x \in {6, 7}}
MCCRC32(b) == b[1] + b[2] + b[3] + 5 * b[9] + 3 * b[20]
MCShipped == [s \in {0} |-> 4]
MCflowSize == [f \in {0, 1} |-> 1]
=============================================================================
