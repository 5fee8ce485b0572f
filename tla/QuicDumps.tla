------------------------------ MODULE QuicDumps ------------------------------
(***************************************************************************)
(* The register dumps: count_buckets.py and dump_buckets.py (the packet    *)
(* register), dump_bytes.py (the byte counter), count_lens.py (the learned *)
(* lengths).                                                               *)
(*                                                                         *)
(* Each pulls a table from the hardware and keeps the nonzero entries.     *)
(* The pull walks the cells one after another while packets keep flowing.  *)
(* The script holds the one Python shell until it has reported, so neither *)
(* a reset nor another dump can run meanwhile.                             *)
(***************************************************************************)
EXTENDS QuicSwitch

CONSTANT MinCount   \* MIN_COUNT: buckets below it are filtered out

ASSUME DumpAssumption == MinCount \in Nat

VARIABLES
  node,    \* table being dumped
  at,      \* next cell to read
  rows,    \* <<index, value>> of the nonzero cells read so far
  report,  \* what the last finished dump wrote: [node, rows]
  base     \* history: the table's content when the dump began

dumpVars == <<node, at, rows, report, base>>
allVars == <<vars, dumpVars>>

Nodes == {"quic_pkt_count", "quic_flow_bytes", "dcid_len_reg"}

Table(n) == CASE n = "quic_pkt_count" -> quic_pkt_count
              [] n = "quic_flow_bytes" -> quic_flow_bytes
              [] n = "dcid_len_reg" -> dcid_len_reg

\* The cells of a dump, whatever the order of the table's indices.
Size(n) == CASE n = "quic_pkt_count" -> NBuckets
             [] n = "quic_flow_bytes" -> NCtrs
             [] n = "dcid_len_reg" -> NKeys

\* Mutant of Kept: the threshold itself is filtered out.
Kept_Above(n, v) == v > 0 /\ (n = "quic_pkt_count" => v > MinCount)

\* The count filter of count_buckets.py and dump_buckets.py; the others keep
\* every nonzero entry.
Kept(n, v) == v > 0 /\ (n = "quic_pkt_count" => v >= MinCount)

DumpInit == /\ Init
            /\ node = "none" /\ at = 0 /\ rows = {} /\ base = <<>>
            /\ report = [node |-> "none", rows |-> {}]

DumpBegin(n) == /\ Begin("scan")
                /\ node' = n /\ at' = 0 /\ rows' = {}
                /\ base' = Table(n)
                /\ UNCHANGED <<regVars, tblVars, dgstVars, npackets, report>>

ReadCell == /\ shell = "scan" /\ at < Size(node)
            /\ rows' = IF Kept(node, Table(node)[at])
                       THEN rows \cup {<<at, Table(node)[at]>>} ELSE rows
            /\ at' = at + 1
            /\ UNCHANGED <<vars, node, report, base>>

DumpEnd == /\ shell = "scan" /\ at = Size(node)
           /\ report' = [node |-> node, rows |-> rows]
           /\ shell' = "free"
           /\ node' = "none" /\ at' = 0 /\ rows' = {} /\ base' = <<>>
           /\ UNCHANGED <<regVars, tblVars, dgstVars, npackets, nscripts>>

Dump == (\E n \in Nodes : DumpBegin(n)) \/ ReadCell \/ DumpEnd

DumpNext == \/ Dump
            \/ ((\E p \in Packets : Process(p)) \/ Reset) /\ UNCHANGED dumpVars

DumpSpec == DumpInit /\ [][DumpNext]_allVars

-----------------------------------------------------------------------------
(* Properties *)

Counting == {"quic_pkt_count", "quic_flow_bytes"}

\* A dump taken under traffic is honest: each count it shows lies between the
\* value when the dump began and the value now, and every bucket that had
\* counted enough by the time the dump began is there.  (As long as no register
\* cell can have wrapped.)
DumpBrackets ==
  shell = "scan" /\ node \in Counting /\ npackets < CntMod =>
     /\ \A r \in rows : base[r[1]] <= r[2] /\ r[2] <= Table(node)[r[1]]
     /\ \A i \in 0 .. at - 1 :
          base[i] > 0 /\ (node = "quic_pkt_count" => base[i] >= MinCount)
             => \E r \in rows : r[1] = i
=============================================================================
