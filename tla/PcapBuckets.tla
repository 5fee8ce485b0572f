---------------------------- MODULE PcapBuckets ----------------------------
(***************************************************************************)
(* pcap_buckets.py: the offline replica of the classifier, run on a        *)
(* capture of the traffic that crossed the switch.                         *)
(*                                                                         *)
(* The tool cuts the capture into ranges, lets one worker per range learn  *)
(* the DCID lengths, merges the maps in range order, lets one worker per   *)
(* range count buckets with the complete map, and merges the counts.       *)
(* Workers finish in any order.  The capture point sees every packet the   *)
(* switch processes, in the same order.                                    *)
(***************************************************************************)
EXTENDS QuicSwitch, FiniteSets

CONSTANT Jobs     \* the -j values tried

VARIABLES
  cap,       \* the capture: packets in file order
  tool,      \* "idle" | "learn" | "bucket" | "done"
  splits,    \* detect's record indices: ranges are [splits[i], splits[i+1])
  maps,      \* range -> the length map its learn worker returned
  learned,   \* the merged map: 4-tuple -> length
  parts,     \* range -> the accumulator its bucket worker returned
  result     \* the merged accumulator

toolVars == <<tool, splits, maps, learned, parts, result>>
pcapVars == <<vars, cap, toolVars>>

-----------------------------------------------------------------------------
(* detect: where to cut *)

\* Records are cut on boundaries; offsets count bytes, records have p.bytes.
Offset == [i \in 0 .. Len(cap) |->
             LET off[j \in 0 .. i] == IF j = 0 THEN 0 ELSE off[j - 1] + cap[j].bytes
             IN off[i]]
Total == Offset[Len(cap)]

\* Mutant of Walk: the last range ends at the last cut.
Walk_NoTail(njobs) ==
  LET w[i \in 0 .. Len(cap)] ==
        IF i = 0 THEN <<0>>
        ELSE IF /\ Offset[i - 1] * njobs >= Len(w[i - 1]) * Total
                /\ Len(w[i - 1]) < njobs
             THEN Append(w[i - 1], i - 1)
             ELSE w[i - 1]
  IN w[Len(cap)]

\* The walk over record headers: a cut before the first record at or past each
\* multiple of Total / njobs, at most njobs - 1 cuts, then the end of file.
Walk(njobs) ==
  LET w[i \in 0 .. Len(cap)] ==
        IF i = 0 THEN <<0>>
        ELSE IF /\ Offset[i - 1] * njobs >= Len(w[i - 1]) * Total
                /\ Len(w[i - 1]) < njobs
             THEN Append(w[i - 1], i - 1)
             ELSE w[i - 1]
  IN Append(w[Len(cap)], Len(cap))

\* The ranges with at least one record (e > s), as sequences of records.
Ranges == {i \in 1 .. Len(splits) - 1 : splits[i + 1] > splits[i]}
Records(i) == SubSeq(cap, splits[i] + 1, splits[i + 1])

-----------------------------------------------------------------------------
(* The two phases on one range *)

\* _parse_frame and _udp443_from_ip: VLAN tags are stripped here.
Sees(p) == /\ p.ether \in {"ipv4", "vlan"}
           /\ p.proto = "udp"
           /\ p.sp = 443 \/ p.dp = 443

NoLengths == <<>>   \* the empty map

\* dict.update: the right map wins.
Update(f, g) == [x \in DOMAIN f \cup DOMAIN g |-> IF x \in DOMAIN g THEN g[x] ELSE f[x]]

\* Mutant of LearnPhase: any long header teaches.
LearnPhase_AnyLong(recs) ==
  LET m[i \in 0 .. Len(recs)] ==
        IF i = 0 THEN NoLengths
        ELSE IF Sees(recs[i]) /\ recs[i].form = "long"
             THEN Update(m[i - 1], [t \in {flow_tuple(recs[i])} |-> recs[i].dcid_len])
             ELSE m[i - 1]
  IN m[Len(recs)]

\* _learn_phase: the last Handshake of each 4-tuple.
LearnPhase(recs) ==
  LET m[i \in 0 .. Len(recs)] ==
        IF i = 0 THEN NoLengths
        ELSE IF Sees(recs[i]) /\ recs[i].form = "long" /\ recs[i].ltype = 2
             THEN Update(m[i - 1], [t \in {flow_tuple(recs[i])} |-> recs[i].dcid_len])
             ELSE m[i - 1]
  IN m[Len(recs)]

\* The DCID bytes the tool reads: the wire length, or the learned one, or none.
LenOf(p, lens) == IF p.form = "long" THEN p.dcid_len
                  ELSE IF flow_tuple(p) \in DOMAIN lens THEN lens[flow_tuple(p)]
                  ELSE 0
ReadDcid(p, lens) ==
  SubSeq(p.dcid, 1, IF LenOf(p, lens) > DcidBytes THEN DcidBytes ELSE LenOf(p, lens))
bucket(dcid) == CRC32(Padded(dcid)) % NBuckets

NewAcc == [pkts |-> [b \in Buckets |-> 0], pairs |-> {}]

\* _fold: bucket one DCID.  "pairs" holds both bucket -> CIDs and CID -> buckets.
Fold(acc, dcid) ==
  [pkts |-> [acc.pkts EXCEPT ![bucket(dcid)] = @ + 1],
   pairs |-> acc.pairs \cup {<<dcid, bucket(dcid)>>}]

BucketPhase(recs, lens) ==
  LET a[i \in 0 .. Len(recs)] ==
        IF i = 0 THEN NewAcc
        ELSE IF Sees(recs[i]) THEN Fold(a[i - 1], ReadDcid(recs[i], lens))
        ELSE a[i - 1]
  IN a[Len(recs)]

-----------------------------------------------------------------------------
(* Merging *)

MergeMaps ==
  LET m[i \in 0 .. Len(splits) - 1] ==
        IF i = 0 THEN NoLengths
        ELSE IF i \in Ranges THEN Update(m[i - 1], maps[i]) ELSE m[i - 1]
  IN m[Len(splits) - 1]

MergeParts ==
  [pkts |-> [b \in Buckets |->
               SumFunction([i \in Ranges |-> parts[i].pkts[b]])],
   pairs |-> UNION {parts[i].pairs : i \in Ranges}]

\* The precision report: distinct CIDs, and buckets with several of them.
distinctCids == {x[1] : x \in result.pairs}
collisions == {b \in Buckets : Cardinality({x \in result.pairs : x[2] = b}) > 1}

-----------------------------------------------------------------------------
(* Actions *)

PcapInit == /\ Init
            /\ cap = <<>>
            /\ tool = "idle" /\ splits = <<>>
            /\ maps = <<>> /\ learned = NoLengths
            /\ parts = <<>> /\ result = NewAcc

\* A packet of the wave crosses the switch and the capture point.
Tap(p) == /\ tool = "idle"
          /\ cap' = Append(cap, p)
          /\ UNCHANGED toolVars

Detect(njobs) == /\ tool = "idle" /\ cap # <<>>
                 /\ splits' = Walk(njobs)
                 /\ maps' = <<>> /\ parts' = <<>>
                 /\ tool' = "learn"
                 /\ UNCHANGED <<vars, cap, learned, result>>

LearnWorker(i) == /\ tool = "learn" /\ i \notin DOMAIN maps
                  /\ maps' = Update(maps, [j \in {i} |-> LearnPhase(Records(i))])
                  /\ UNCHANGED <<vars, cap, tool, splits, learned, parts, result>>

LearnDone == /\ tool = "learn" /\ DOMAIN maps = Ranges
             /\ learned' = MergeMaps
             /\ tool' = "bucket"
             /\ UNCHANGED <<vars, cap, splits, maps, parts, result>>

BucketWorker(i) == /\ tool = "bucket" /\ i \notin DOMAIN parts
                   /\ parts' = Update(parts, [j \in {i} |-> BucketPhase(Records(i), learned)])
                   /\ UNCHANGED <<vars, cap, tool, splits, maps, learned, result>>

BucketDone == /\ tool = "bucket" /\ DOMAIN parts = Ranges
              /\ result' = MergeParts
              /\ tool' = "done"
              /\ UNCHANGED <<vars, cap, splits, maps, learned, parts>>

Tool == \/ \E njobs \in Jobs : Detect(njobs)
        \/ \E i \in Ranges : LearnWorker(i) \/ BucketWorker(i)
        \/ LearnDone
        \/ BucketDone

\* Packets in any order: a short header may precede its Handshake, or the
\* Handshake may travel behind an Initial in one datagram and stay unseen.
PcapNext == (\E p \in Packets : Process(p) /\ Tap(p)) \/ Tool
PcapSpec == PcapInit /\ [][PcapNext]_pcapVars

-----------------------------------------------------------------------------
(* Properties *)

\* What the comparison asks of the traffic: no register cell wraps, UDP 443
\* carries no VLAN tag (the switch parses none, the tool strips it), IDs fit
\* the 20-byte field, and no Handshake of another flow overwrites a length.
Comparable ==
  /\ MaxPackets < CntMod
  /\ \A p \in Packets : /\ Sees(p) => Quic(p) /\ Len(p.cid) <= DcidBytes
                        /\ Short(p) => Unshared(p)

\* No key is shared by a flow's short headers and another flow's Handshake:
\* else the switch may know a length the capture has no Handshake for.
OwnKeys ==
  \A p, q \in Packets :
     Short(p) /\ Handshake(q) /\ flow_key(q) = flow_key(p) => flow_tuple(q) = flow_tuple(p)

\* No short header comes before the Handshake of its flow.
Orderly == \A i \in 1 .. Len(cap) :
  Short(cap[i]) => \E j \in 1 .. i - 1 : /\ Handshake(cap[j])
                                        /\ flow_tuple(cap[j]) = flow_tuple(cap[i])

\* "mirroring p4src/ingress.p4 exactly": on an orderly capture the replica
\* agrees with the registers of the switch, bucket by bucket.
ParityWithSwitch == tool = "done" /\ Orderly => result.pkts = quic_pkt_count

\* On any capture the two differ in one way only: packets that crossed before
\* their length was known are in the switch's bucket of the empty mask, and in
\* the bucket of their ID in the replica, which learns before it counts.
ParityUpToLearning ==
  tool = "done" =>
     /\ \A b \in Buckets \ {ZeroBucket} : quic_pkt_count[b] <= result.pkts[b]
     /\ SumFunction(quic_pkt_count) = SumFunction(result.pkts)

\* However the capture is cut and whichever worker finishes first, the result
\* is the one of the serial run: no record lost or counted twice at a cut, and
\* a Handshake in one range serves the short headers of every other.
ShardedIsSerial ==
  tool = "done" => result = BucketPhase(cap, LearnPhase(cap))
=============================================================================
