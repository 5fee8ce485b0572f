---------------------------- MODULE GroundTruth ----------------------------
(***************************************************************************)
(* The three judgements on one capture: analyze_pcap.py and                *)
(* endpoint_buckets.py, which ask tshark for the connection IDs, and the   *)
(* report of pcap_buckets.py, which reads them off the learned lengths.    *)
(*                                                                         *)
(* tshark is external.  A long header carries its ID; that of a short one  *)
(* is listed only where the dissector has tracked the connection, which it *)
(* may have given up, and is blank elsewhere.  A datagram may hold several *)
(* packets, which all carry the same ID (RFC 9000, 12.2); tshark lists the *)
(* ID once for each, the switch and pcap_buckets.py only look at the       *)
(* first.  An empty ID is an empty field of its output.                    *)
(***************************************************************************)
EXTENDS PcapBuckets

CONSTANTS
  Coalesced(_),    \* further QUIC packets in the datagram of p
  Tracked(_, _),   \* external: tshark, on capture c, knows the ID of frame i
  MonSlots         \* the "10-bit counter index" of analyze_pcap.py

ASSUME CoalescedAssumption == \A p \in Packets : Coalesced(p) \in Nat

Frames == {i \in 1 .. Len(cap) : Sees(cap[i])}

\* The frames whose quic.dcid field is not blank.
Listed == {i \in Frames : cap[i].cid # <<>> /\ (Long(cap[i]) \/ Tracked(cap, i))}

-----------------------------------------------------------------------------
(* analyze_pcap.py *)

\* Mutant of Tokens: the field is taken for one ID.
Tokens_First(p) == 1

\* The comma-separated IDs of a listed line.
Tokens(p) == 1 + Coalesced(p)

FramesOf(flow) == {i \in Frames : flow_tuple(cap[i]) = flow}
flow_pkts == [flow \in {flow_tuple(cap[i]) : i \in Frames} |-> Cardinality(FramesOf(flow))]

\* parse_tshark: an ID with its length, its packets and its primary flow.
dcid_info ==
  [c \in {cap[i].cid : i \in Listed} |->
     LET seen == {i \in Listed : cap[i].cid = c}
         dcid_flows == {flow_tuple(cap[i]) : i \in seen}
     IN  [cid_len |-> Len(c),
          pkt_count |-> SumFunction([i \in seen |-> Tokens(cap[i])]),
          flow |-> CHOOSE f \in dcid_flows :
                     \A g \in dcid_flows : flow_pkts[g] <= flow_pkts[f]]]

b17(c) == CRC32(Padded(c)) % NBuckets
b10(c) == b17(c) % MonSlots
p4_ok(c) == dcid_info[c].cid_len = DcidBytes

\* The log of a monitor that watched the whole capture: the raw indices of the
\* counting slots for which on_quic_digest has stored an ID.
identified == {b10(SubSeq(d.dcid, 1, IF d.dcid_len > DcidBytes THEN DcidBytes ELSE d.dcid_len)) :
                 d \in {digests[i] : i \in {j \in DOMAIN digests : digests[j].dcid_len > 0}}}
p4_buckets_seen == {idx \in Ctrs : quic_flow_pkts[idx] > 0} \cap identified

\* compare_with_p4
gt_ok_buckets == {b10(c) : c \in {d \in DOMAIN dcid_info : p4_ok(d)}}
fn == gt_ok_buckets \ p4_buckets_seen

-----------------------------------------------------------------------------
(* endpoint_buckets.py *)

\* (dcid, src, dst) -> length, bucket and packets.
agg ==
  LET key(p) == <<p.cid, p.src, p.dst>>
  IN  [k \in {key(cap[i]) : i \in Listed} |->
         [len |-> Len(k[1]), bucket |-> CRC32(Padded(k[1])) % NBuckets,
          pkts |-> SumFunction([i \in {j \in Listed : key(cap[j]) = k} |-> Tokens(cap[i])])]]

-----------------------------------------------------------------------------
(* The report of pcap_buckets.py *)

pcapBuckets == {x[2] : x \in result.pairs}
cidsIn(b) == {x[1] : x \in {y \in result.pairs : y[2] = b}}
cids_collided == SumFunction([b \in collisions |-> Cardinality(cidsIn(b))])
pkts_collided == SumFunction([b \in collisions |-> result.pkts[b]])

\* Mutant of separated: every conflated connection is taken off.
separated_Pessimist == Cardinality(distinctCids) - cids_collided

\* Connections the classifier kept apart; the accuracy is their share.
separated == Cardinality(distinctCids) - cids_collided + Cardinality(collisions)

\* --switch: the buckets of the dump against those of the capture.
sw == {b \in Buckets : quic_pkt_count[b] > 0}
sw_only == sw \ pcapBuckets
pc_only == pcapBuckets \ sw

-----------------------------------------------------------------------------
(* Properties *)

\* On an orderly capture tshark, which follows connections, and the switch,
\* which follows lengths, account for each other bucket by bucket whatever
\* tshark gave up on: the switch counts what tshark lists, less the packets
\* behind the first in a datagram, plus exactly the frames tshark left blank,
\* and those are counted in the bucket of the ID tshark did not give.  The two
\* scripts, which group the lines differently, read the same from them.
GroundTruthExact ==
  tool = "done" /\ Orderly =>
    \A b \in Buckets :
       LET here == {i \in Frames : CidBucket(cap[i].cid) = b}
           listed == SumFunction([k \in {x \in DOMAIN agg : agg[x].bucket = b} |-> agg[k].pkts])
       IN  /\ listed + Cardinality(here \ Listed)
                = quic_pkt_count[b] + SumFunction([i \in here \cap Listed |-> Coalesced(cap[i])])
           /\ listed = SumFunction([c \in {x \in DOMAIN dcid_info : b17(x) = b} |-> dcid_info[c].pkt_count])

\* analyze_pcap.py notes for every ID that is not 20 bytes long that the switch
\* reads wrong bytes: nothing counts in the bucket of such an ID, unless a
\* 20-byte one shares it.  (The mask makes the switch count it right.)
OtherLengthsMisread ==
  tool = "done" =>
    \A c \in DOMAIN dcid_info :
       ~p4_ok(c) /\ (\A d \in DOMAIN dcid_info : p4_ok(d) => b17(d) # b17(c))
         => quic_pkt_count[b17(c)] = 0

\* analyze_pcap.py promises that the switch identifies every 20-byte ID: on an
\* orderly capture --compare reports none as missed.  (Its index, "as P4 would
\* compute", is narrower than the one the log names.)
NoneMissed == tool = "done" /\ Orderly => fn = {}

\* The report is about connections and the cross-check is quiet where it should
\* be.  The switch has no bucket the offline model lacks but the one of the empty
\* mask, where it counts what it had not learned.  On an orderly capture there is
\* no difference at all: the tool, which only sees fields, finds the true IDs and
\* the true collisions, as many connections are separated as their IDs have
\* buckets, and the packets said to be affected are those whose bucket another
\* captured ID shares.
CrossCheckQuiet ==
  tool = "done" =>
    /\ sw_only \subseteq {ZeroBucket}
    /\ Orderly =>
         LET cid(i) == cap[i].cid
             cids == {cid(i) : i \in Frames}
             of(b) == {c \in cids : CidBucket(c) = b}
         IN  /\ sw_only = {} /\ pc_only = {}
             /\ distinctCids = cids
             /\ collisions = {b \in Buckets : Cardinality(of(b)) > 1}
             /\ separated = Cardinality({CidBucket(c) : c \in cids})
             /\ pkts_collided = Cardinality({i \in Frames :
                                  Cardinality(of(CidBucket(cid(i)))) > 1})
=============================================================================
