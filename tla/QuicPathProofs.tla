--------------------------- MODULE QuicPathProofs ---------------------------
(***************************************************************************)
(* In a measurement wave the switch implements per-connection-ID counting, *)
(* for every packet set without collisions and every register size.        *)
(* A monitor that watches the wave attributes its slots rightly.           *)
(***************************************************************************)
EXTENDS QuicMonitor, QuicSwitchProofs, SequenceTheorems

\* A step of the wave is a step of the switch.
LEMMA PathStepIsStep == [PathNext]_pathVars => [Next]_vars
<1>1. ASSUME NEW p \in Packets, Send(p) PROVE Next
  BY <1>1 DEF Send, Next
<1>2. ASSUME NEW f \in open, Close(f) PROVE UNCHANGED vars
  BY <1>2 DEF Close
<1>3. WaveReset => Next
  BY DEF WaveReset, Next, Reset
<1>4. Setup \/ SetArm(0) \/ Deliver => Next
  BY DEF Next, Arms
<1>5. UNCHANGED pathVars => UNCHANGED vars
  BY DEF pathVars
<1>6. QED
  BY <1>1, <1>2, <1>3, <1>4, <1>5 DEF PathNext

LEMMA PathType == PathSpec => []TypeOK
<1>1. PathInit => Init
  BY DEF PathInit
<1>2. PathSpec => Spec
  BY <1>1, PathStepIsStep, PTL DEF PathSpec, Spec
<1>3. QED
  BY <1>2, TypeCorrect, PTL

-----------------------------------------------------------------------------
(* The bucket of a packet of the wave *)

LEMMA CidBucketExists ==
  ASSUME NEW c \in Cids
  PROVE  CidBucket(c) \in Buckets /\ CtrOf(CidBucket(c)) \in Ctrs
<1>1. PICK p \in Packets : c = p.cid
  BY DEF Cids
<1>2. CRC32(Padded(c)) \in Nat
  BY <1>1, HashAssumption
<1>3. CidBucket(c) \in Buckets
  BY <1>2, ModRange, SizesAssumption DEF CidBucket, dcid_hash, Buckets
<1>4. CidBucket(c) \in Nat
  BY <1>3, SizesAssumption DEF Buckets
<1>5. CtrOf(CidBucket(c)) \in Ctrs
  BY <1>4, ModRange, SizesAssumption DEF CtrOf, Ctrs
<1>6. QED
  BY <1>3, <1>5

\* Every QUIC packet of the wave counts in the bucket of its connection ID.
LEMMA SendBucket ==
  ASSUME TypeOK, PathInv, NEW p \in Packets, Send(p), Quic(p)
  PROVE  /\ p.cid \in Cids
         /\ flow_id(p) = CidBucket(p.cid)
<1>1. p.cid \in Cids
  BY DEF Cids
<1>2. Len(p.cid) <= DcidBytes
  BY <1>1, CidAssumption
<1>3. Long(p) \/ Short(p)
  BY PacketsAssumption, Zenon DEF IsQuicForm, Long, Short
<1>5. eff_len(p) = Len(p.cid)
  <2>1. CASE Long(p)
    BY <2>1, WireAssumption DEF eff_len, Long, Short, PathInv
  <2>2. CASE Short(p)
    BY <2>2 DEF eff_len, Long, Short, PathInv, Send
  <2>3. QED
    BY <2>1, <2>2, <1>3
<1>6. Masked(p.dcid, eff_len(p)) = Padded(p.cid)
  BY <1>2, <1>5, MaskKeepsCid, PacketFields, WireAssumption
<1>7. QED
  BY <1>1, <1>6 DEF flow_id, CidBucket

-----------------------------------------------------------------------------
(* The invariant of the wave *)

LEMMA ModSmall ==
  ASSUME NEW x \in Nat, NEW n \in Nat, x < n
  PROVE  x % n = x
OBVIOUS

\* A QUIC packet adds one to its bucket: the cell cannot wrap.
LEMMA NoWrap ==
  ASSUME TypeOK, PathInv, NEW p \in Packets, Process(p), Quic(p)
  PROVE  quic_pkt_count' =
           [quic_pkt_count EXCEPT ![flow_id(p)] = quic_pkt_count[flow_id(p)] + 1]
<1> DEFINE b == flow_id(p)
<1>1. b \in Buckets
  BY BucketExists
<1>2. quic_pkt_count[b] \in Nat /\ npackets \in Nat /\ npackets < MaxPackets
  BY <1>1, SizesAssumption DEF TypeOK, Process
<1>3. quic_pkt_count[b] <= npackets
  BY <1>1 DEF PathInv
<1>4. quic_pkt_count[b] + 1 < CntMod
  BY <1>2, <1>3, NoWrapAssumption, SizesAssumption
<1>5. count_quic(b) = quic_pkt_count[b] + 1
  BY <1>2, <1>4, ModSmall, SizesAssumption DEF count_quic
<1>6. QED
  BY <1>5 DEF Process, Count

LEMMA SendInv ==
  ASSUME TypeOK, PathInv, NEW p \in Packets, Send(p)
  PROVE  PathInv'
<1>1. Process(p) /\ ~Resetting
  BY DEF Send
<1>2. force_len' = 0 /\ ~Resetting'
  BY <1>1 DEF Process, tblVars, PathInv, Resetting
<1>3. \A q \in Packets :
         Short(q) /\ flow_tuple(q) \in open' =>
            dcid_len_reg'[flow_key(q)] = Len(q.cid)
  <2> SUFFICES ASSUME NEW q \in Packets, Short(q), flow_tuple(q) \in open'
               PROVE  dcid_len_reg'[flow_key(q)] = Len(q.cid)
    OBVIOUS
  <2>1. flow_key(q) \in Keys /\ flow_key(p) \in Keys
    BY PacketFields
  <2>2. CASE Handshake(p) /\ flow_key(p) = flow_key(q)
    <3>1. dcid_len_reg'[flow_key(q)] = p.dcid_len
      BY <1>1, <2>1, <2>2 DEF Process, Learn, TypeOK
    <3>2. p.dcid_len = Len(q.cid)
      BY <2>2, KeyAssumption DEF Unshared
    <3>3. QED
      BY <3>1, <3>2
  <2>3. CASE ~(Handshake(p) /\ flow_key(p) = flow_key(q))
    <3>1. dcid_len_reg'[flow_key(q)] = dcid_len_reg[flow_key(q)]
      BY <1>1, <2>1, <2>3 DEF Process, Learn, TypeOK
    <3>2. flow_tuple(q) \in open
      BY <2>3 DEF Send, flow_key
    <3>3. QED
      BY <3>1, <3>2 DEF PathInv
  <2>4. QED
    BY <2>2, <2>3
<1>4. \A b \in Buckets : quic_pkt_count'[b] <= npackets'
  <2>1. npackets' = npackets + 1 /\ npackets \in Nat
    BY <1>1, SizesAssumption DEF Process, TypeOK
  <2>2. \A b \in Buckets : quic_pkt_count[b] \in Nat /\ quic_pkt_count[b] <= npackets
    BY SizesAssumption DEF TypeOK, PathInv
  <2>3. CASE Quic(p)
    <3>1. \A b \in Buckets : \/ quic_pkt_count'[b] = quic_pkt_count[b]
                             \/ quic_pkt_count'[b] = quic_pkt_count[b] + 1
      BY <1>1, <2>3, NoWrap DEF TypeOK
    <3>2. QED
      BY <2>1, <2>2, <3>1
  <2>4. CASE ~Quic(p)
    BY <1>1, <2>1, <2>2, <2>4 DEF Process
  <2>5. QED
    BY <2>3, <2>4
<1>5. QED
  BY <1>2, <1>3, <1>4 DEF PathInv

\* The clears of a reset: they meet no open flow, so none loses its length.
LEMMA ResetInv ==
  ASSUME TypeOK, PathInv, WaveReset
  PROVE  PathInv'
<1>1. open' = {} /\ force_len' = 0 /\ npackets' = npackets
  BY DEF WaveReset, ResetPktCount, ResetFlowBytes, ResetLens, Begin, Continue,
         PathInv, Resetting, tblVars, waveVars
<1>2. \A b \in Buckets : quic_pkt_count'[b] <= npackets'
  <2>1. npackets \in Nat
    BY SizesAssumption DEF TypeOK
  <2>2. CASE ResetPktCount
    BY <1>1, <2>1, <2>2 DEF ResetPktCount
  <2>3. CASE ResetFlowBytes \/ ResetLens
    BY <1>1, <2>3 DEF ResetFlowBytes, ResetLens, PathInv
  <2>4. QED
    BY <2>2, <2>3 DEF WaveReset
<1>3. QED
  BY <1>1, <1>2 DEF PathInv

\* setup.py, the length-aware arm and digest delivery touch none of it.
LEMMA OtherInv ==
  ASSUME TypeOK, PathInv, Setup \/ SetArm(0) \/ Deliver, UNCHANGED waveVars
  PROVE  PathInv'
<1>1. /\ UNCHANGED <<dcid_len_reg, quic_pkt_count, npackets>>
      /\ force_len' = 0
  BY DEF Setup, SetupClear, SetupForward, AddForward, SetupArm,
         SetupDeregister, SetupRegister, SetArm, Deliver, regVars, tblVars, PathInv
<1>2. UNCHANGED open
  BY DEF waveVars
<1>3. Resetting' => Resetting
  BY DEF Setup, SetupClear, SetupForward, AddForward, SetupArm,
         SetupDeregister, SetupRegister, SetArm, Deliver, Begin, Continue, Resetting
<1>4. QED
  BY <1>1, <1>2, <1>3 DEF PathInv

\* In a wave the length of every open flow stays in the register.
THEOREM PathInvariant == PathSpec => []PathInv
<1>1. PathInit => PathInv
  BY SizesAssumption DEF PathInit, Init, PathInv, Resetting
<1>2. TypeOK /\ PathInv /\ [PathNext]_pathVars => PathInv'
  <2> SUFFICES ASSUME TypeOK, PathInv, [PathNext]_pathVars
               PROVE  PathInv'
    OBVIOUS
  <2>1. CASE \E p \in Packets : Send(p)
    BY <2>1, SendInv
  <2>2. CASE \E f \in open : Close(f)
    BY <2>2 DEF Close, vars, regVars, tblVars, PathInv, Resetting
  <2>3. CASE WaveReset
    BY <2>3, ResetInv
  <2>4. CASE (Setup \/ SetArm(0) \/ Deliver) /\ UNCHANGED waveVars
    BY <2>4, OtherInv
  <2>5. CASE UNCHANGED pathVars
    BY <2>5 DEF pathVars, waveVars, vars, regVars, tblVars, PathInv, Resetting
  <2>6. QED
    BY <2>1, <2>2, <2>3, <2>4, <2>5 DEF PathNext
<1>3. QED
  BY <1>1, <1>2, PathType, PTL DEF PathSpec

-----------------------------------------------------------------------------
(* The refinement *)

CidCount == [c \in Cids |-> quic_pkt_count[CidBucket(c)]]
CidBytes == [c \in Cids |-> quic_flow_bytes[CtrOf(CidBucket(c))]]

\* A packet of the wave crosses as a packet of its own connection ID.
LEMMA SendRefines ==
  ASSUME TypeOK, PathInv, NEW p \in Packets, Send(p), Quic(p)
  PROVE  Flow!Cross(p.cid, p.bytes)
<1>1. Process(p)
  BY DEF Send
<1>2. p.cid \in Cids /\ flow_id(p) = CidBucket(p.cid)
  BY SendBucket
<1>3. \A c \in Cids : /\ CidBucket(c) \in Buckets
                      /\ CtrOf(CidBucket(c)) \in Ctrs
                      /\ CtrOf(CidBucket(c)) = CtrOf(CidBucket(p.cid)) => c = p.cid
                      /\ CidBucket(c) = CidBucket(p.cid) => c = p.cid
  BY <1>2, CidBucketExists, CidAssumption
<1>4. quic_pkt_count' = [quic_pkt_count EXCEPT ![CidBucket(p.cid)] =
                           quic_pkt_count[CidBucket(p.cid)] + 1]
  BY <1>1, <1>2, NoWrap
<1>5. quic_flow_bytes' = [quic_flow_bytes EXCEPT ![CtrOf(CidBucket(p.cid))] =
                            quic_flow_bytes[CtrOf(CidBucket(p.cid))] + p.bytes]
  BY <1>1, <1>2 DEF Process, Count
<1>6. CidCount' = [CidCount EXCEPT ![p.cid] = @ + 1]
  BY <1>2, <1>3, <1>4 DEF CidCount, TypeOK
<1>7. CidBytes' = [CidBytes EXCEPT ![p.cid] = @ + p.bytes]
  BY <1>2, <1>3, <1>5 DEF CidBytes, TypeOK
<1>8. crossed' = Append(crossed, <<p.cid, p.bytes>>)
  BY DEF Send
<1>9. QED
  BY <1>6, <1>7, <1>8 DEF Flow!Cross, CidCount, CidBytes

\* The first two clears of a reset clear the counts; the third is invisible.
LEMMA ResetRefines ==
  ASSUME WaveReset
  PROVE  Flow!ClearCount \/ Flow!ClearBytes \/ UNCHANGED <<crossed, CidCount, CidBytes>>
<1>0. UNCHANGED crossed
  BY DEF WaveReset, waveVars
<1>1. CASE ResetPktCount
  <2>1. CidCount' = [c \in Cids |-> 0]
    BY <1>1, CidBucketExists DEF ResetPktCount, CidCount
  <2>2. UNCHANGED CidBytes
    BY <1>1 DEF ResetPktCount, CidBytes
  <2>3. QED
    BY <1>0, <2>1, <2>2 DEF Flow!ClearCount, CidCount, CidBytes
<1>2. CASE ResetFlowBytes
  <2>1. CidBytes' = [c \in Cids |-> 0]
    BY <1>2, CidBucketExists DEF ResetFlowBytes, CidBytes
  <2>2. UNCHANGED CidCount
    BY <1>2 DEF ResetFlowBytes, CidCount
  <2>3. QED
    BY <1>0, <2>1, <2>2 DEF Flow!ClearBytes, CidCount, CidBytes
<1>3. CASE ResetLens
  BY <1>0, <1>3 DEF ResetLens, CidCount, CidBytes
<1>4. QED
  BY <1>1, <1>2, <1>3 DEF WaveReset

\* In a wave, without collisions, the registers of the switch are exactly the
\* per-connection-ID packet and byte counts of QuicFlowCount: each packet is charged,
\* in the step in which it crosses, to the connection ID it carries.
THEOREM PathImplementsCounting == PathSpec => CountsPerCid
<1>1. PathInit => Flow!Init
  <2> SUFFICES ASSUME PathInit PROVE Flow!Init
    OBVIOUS
  <2>1. CidCount = [c \in Cids |-> 0]
    BY CidBucketExists DEF PathInit, Init, CidCount
  <2>2. CidBytes = [c \in Cids |-> 0]
    BY CidBucketExists DEF PathInit, Init, CidBytes
  <2>3. QED
    BY <2>1, <2>2 DEF PathInit, Flow!Init, CidCount, CidBytes
<1>2. TypeOK /\ PathInv /\ [PathNext]_pathVars =>
        [Flow!Next]_<<crossed, CidCount, CidBytes>>
  <2> SUFFICES ASSUME TypeOK, PathInv, [PathNext]_pathVars
               PROVE  Flow!Next \/ UNCHANGED <<crossed, CidCount, CidBytes>>
    OBVIOUS
  <2>1. ASSUME NEW p \in Packets, Send(p)
        PROVE  Flow!Next \/ UNCHANGED <<crossed, CidCount, CidBytes>>
    <3>1. CASE Quic(p)
      <4>1. p.cid \in Cids /\ p.bytes \in Sizes
        BY <3>1 DEF Cids, Sizes
      <4>2. Flow!Cross(p.cid, p.bytes)
        BY <2>1, <3>1, SendRefines
      <4>3. QED
        BY <4>1, <4>2 DEF Flow!Next
    <3>2. CASE ~Quic(p)
      BY <2>1, <3>2 DEF Send, Process, CidCount, CidBytes
    <3>3. QED
      BY <3>1, <3>2
  <2>2. CASE \E f \in open : Close(f)
    BY <2>2 DEF Close, vars, regVars, CidCount, CidBytes
  <2>3. CASE WaveReset
    BY <2>3, ResetRefines DEF Flow!Next
  <2>4. CASE (Setup \/ SetArm(0) \/ Deliver) /\ UNCHANGED waveVars
    <3>1. UNCHANGED <<quic_pkt_count, quic_flow_bytes>>
      BY <2>4 DEF Setup, SetupClear, SetupForward, AddForward, SetupArm,
           SetupDeregister, SetupRegister, SetArm, Deliver, regVars
    <3>2. QED
      BY <2>4, <3>1 DEF waveVars, CidCount, CidBytes
  <2>5. CASE UNCHANGED pathVars
    BY <2>5 DEF pathVars, waveVars, vars, regVars, CidCount, CidBytes
  <2>6. QED
    BY <2>1, <2>2, <2>3, <2>4, <2>5 DEF PathNext
<1>3. Flow!Spec <=> Flow!Init /\ [][Flow!Next]_<<crossed, CidCount, CidBytes>>
  BY DEF Flow!Spec, Flow!flowVars, CidCount, CidBytes
<1>4. QED
  BY <1>1, <1>2, <1>3, PathType, PathInvariant, PTL DEF PathSpec, CountsPerCid

-----------------------------------------------------------------------------
(* quic_monitor.py in a wave *)

\* The monitor folds a bucket to the slot the switch counts it in.
FoldsAgree == \A c \in Cids : CidBucket(c) % MonCtrs = CtrOf(CidBucket(c))

\* A packet whose bucket has counted in register r, and a digest of such a packet.
Counted(r, p) == r[CidBucket(p.cid)] > 0
DigestOf(r, d) == \E p \in Packets : Quic(p) /\ Counted(r, p) /\ d = quic_digest(p)
Filed(d) == d.dcid_len # 0

\* Endpoint and direction are those of a packet hashed to the slot.
OfPacket(idx, ckey, dir) ==
  \E p \in Packets :
     Quic(p) /\ CtrOf(CidBucket(p.cid)) = idx /\ ckey = ClientOf(p) /\ dir = DirOf(p)

\* The switch under the monitor: nothing is reset, a counting bucket has its slot
\* counting, an open flow's bucket counts already, and so does a digest's.
CrossedInv ==
  /\ ~Resetting
  /\ \A b \in Buckets : quic_pkt_count[b] > 0 => CtrOf(b) \in Counting
  /\ \A f \in open : \E q \in Packets : /\ Handshake(q) /\ flow_tuple(q) = f
                                        /\ Counted(quic_pkt_count, q)
  /\ \A i \in 1 .. Len(digests) : DigestOf(quic_pkt_count, digests[i])

\* Slot idx has an endpoint, and it is one of the packets hashed there.
HasEndpoint(idx) ==
  /\ idx \in DOMAIN bucket_ckey /\ idx \in DOMAIN bucket_dir
  /\ OfPacket(idx, bucket_ckey[idx], bucket_dir[idx])

\* What the monitor's dictionaries hold.  The callback in its second step is at the
\* slot whose DCID it has just filed.
FiledInv ==
  /\ cb # <<>> => /\ DigestOf(quic_pkt_count, cb[1])
                  /\ ctr_idx(cb[1]) \in DOMAIN ctr_dcid
                  /\ ctr_dcid[ctr_idx(cb[1])].len = cb[1].dcid_len
  /\ \A idx \in DOMAIN ctr_dcid :
       ctr_dcid[idx].len < DcidBytes =>
          idx \in Counting /\ (BetweenSteps(idx) \/ HasEndpoint(idx))

\* A slot that started counting under the monitor is filed, or a digest that will
\* have it filed is waiting, unless a rotated ID counts in it.
WaitingInv ==
  Watching =>
     \A c \in Counting \ (base \cup RotatedSlots \cup DOMAIN ctr_dcid) :
        \E i \in 1 .. Len(digests) : Filed(digests[i]) /\ ctr_idx(digests[i]) = c

MonInv == TypeOK /\ PathInv /\ CrossedInv /\ FiledInv

\* The monitor truncates a long header's digest to the connection ID itself ...
LEMMA ShownIsCid ==
  ASSUME NEW p \in Packets, Long(p)
  PROVE  /\ Quic(p) /\ p.cid \in Cids
         /\ quic_digest(p).dcid_len = Len(p.cid) /\ ShownDcid(quic_digest(p)) = p.cid
<1>1. Quic(p) /\ p.cid \in Cids
  BY DEF Long, Cids
<1>2. Shows(p.dcid, p.cid) /\ p.dcid_len = Len(p.cid)
  BY <1>1, WireAssumption
<1> DEFINE f == p.dcid
           g == p.cid
           n == Len(p.cid)
<1>3. f \in Dcid /\ g \in Seq(Byte) /\ n \in Nat /\ n <= DcidBytes
  BY <1>1, PacketFields, CidAssumption
<1>4. parsed_len(p) = n
  BY <1>2 DEF parsed_len, Long, Short
<1>5. quic_digest(p).dcid_len = n /\ quic_digest(p).dcid = f
  BY <1>4 DEF quic_digest
<1>6. ShownDcid(quic_digest(p)) = SubSeq(f, 1, n)
  <2>1. ~(n > DcidBytes)
    BY <1>3 DEF DcidBytes
  <2>2. QED
    BY <1>5, <2>1 DEF ShownDcid
<1>7. \A i \in 1 .. n : f[i] = g[i] /\ g[i] \in Byte
  <2>1. \A i \in 1 .. n : i \in 1 .. DcidBytes /\ i <= n
    BY <1>3 DEF DcidBytes
  <2>2. \A i \in 1 .. n : f[i] = g[i]
    BY <1>2, <2>1 DEF Shows
  <2>3. \A i \in 1 .. n : g[i] \in Byte
    BY <1>3, ElementOfSeq
  <2>4. QED
    BY <2>2, <2>3
<1>8. Len(g) = n
  OBVIOUS
<1> HIDE DEF f, g, n
<1>9. /\ SubSeq(f, 1, n) \in Seq(Byte) /\ Len(SubSeq(f, 1, n)) = n
      /\ \A i \in 1 .. n : SubSeq(f, 1, n)[i] = f[i]
  BY <1>3, <1>7, SubSeqProperties
<1>10. SubSeq(f, 1, n) = g
  BY <1>3, <1>7, <1>8, <1>9, SeqEqual
<1>11. QED
  BY <1>1, <1>5, <1>6, <1>10 DEF g, n

\* ... and files it under the slot the switch counts that ID in.
LEMMA FiledSlot ==
  ASSUME FoldsAgree, NEW p \in Packets, Long(p)
  PROVE  /\ ctr_idx(quic_digest(p)) = CtrOf(CidBucket(p.cid))
         /\ OfPacket(ctr_idx(quic_digest(p)), ClientOf(quic_digest(p)), DirOf(quic_digest(p)))
<1>1. Quic(p) /\ p.cid \in Cids /\ ShownDcid(quic_digest(p)) = p.cid
  BY ShownIsCid
<1>2. ctr_idx(quic_digest(p)) = CidBucket(p.cid) % MonCtrs
  BY <1>1 DEF ctr_idx, CidBucket, dcid_hash
<1>3. ctr_idx(quic_digest(p)) = CtrOf(CidBucket(p.cid))
  BY <1>1, <1>2 DEF FoldsAgree
<1>4. /\ quic_digest(p).src = p.src /\ quic_digest(p).dst = p.dst
      /\ quic_digest(p).sp = p.sp /\ quic_digest(p).dp = p.dp
  BY DEF quic_digest
<1>5. ClientOf(quic_digest(p)) = ClientOf(p) /\ DirOf(quic_digest(p)) = DirOf(p)
  BY <1>4 DEF ClientOf, DirOf
<1>6. QED
  BY <1>1, <1>3, <1>5 DEF OfPacket

\* A QUIC packet of the wave: its bucket and slot count, everything that counted
\* goes on counting, and it is digested if its bucket starts.
LEMMA SendCounts ==
  ASSUME TypeOK, PathInv, NEW p \in Packets, Send(p), Quic(p)
  PROVE  /\ p.cid \in Cids /\ CidBucket(p.cid) \in Buckets /\ CtrOf(CidBucket(p.cid)) \in Ctrs
         /\ Counted(quic_pkt_count', p)
         /\ \A b \in Buckets : quic_pkt_count[b] > 0 => quic_pkt_count'[b] > 0
         /\ \A b \in Buckets : quic_pkt_count'[b] > 0 => b = CidBucket(p.cid) \/ quic_pkt_count[b] > 0
         /\ Counting' = Counting \cup {CtrOf(CidBucket(p.cid))}
         /\ digests' = IF Counted(quic_pkt_count, p) THEN digests
                                                     ELSE Append(digests, quic_digest(p))
<1> DEFINE b == CidBucket(p.cid)
           s == CtrOf(CidBucket(p.cid))
<1>1. Process(p) /\ p.cid \in Cids /\ flow_id(p) = b
  BY SendBucket DEF Send
<1>2. b \in Buckets /\ s \in Ctrs
  BY <1>1, CidBucketExists
<1>3. /\ \A x \in Buckets : quic_pkt_count[x] \in Nat
      /\ \A x \in Ctrs : quic_flow_pkts[x] \in Nat
  BY SizesAssumption DEF TypeOK
<1>4. /\ quic_pkt_count' = [quic_pkt_count EXCEPT ![b] = quic_pkt_count[b] + 1]
  BY <1>1, NoWrap
<1>5. /\ quic_flow_pkts' = [quic_flow_pkts EXCEPT ![s] = quic_flow_pkts[s] + 1]
      /\ quic_pkt_count' = [quic_pkt_count EXCEPT ![b] = count_quic(b)]
      /\ digests' = IF count_quic(b) = 1 THEN Append(digests, quic_digest(p)) ELSE digests
  BY <1>1 DEF Process, Count
<1> HIDE DEF b, s
<1>6. count_quic(b) = quic_pkt_count[b] + 1
  BY <1>2, <1>4, <1>5 DEF TypeOK
<1>7. \A x \in Buckets : quic_pkt_count'[x] = IF x = b THEN quic_pkt_count[b] + 1 ELSE quic_pkt_count[x]
  BY <1>2, <1>4 DEF TypeOK
<1>8. Counting' = Counting \cup {s}
  <2>1. \A x \in Ctrs : quic_flow_pkts'[x] = IF x = s THEN quic_flow_pkts[s] + 1 ELSE quic_flow_pkts[x]
    BY <1>2, <1>5 DEF TypeOK
  <2>2. QED
    BY <1>2, <1>3, <2>1 DEF Counting
<1>9. digests' = IF quic_pkt_count[b] > 0 THEN digests ELSE Append(digests, quic_digest(p))
  BY <1>2, <1>3, <1>5, <1>6
<1>10. quic_pkt_count'[b] > 0 /\ \A x \in Buckets : quic_pkt_count[x] > 0 => quic_pkt_count'[x] > 0
  BY <1>2, <1>3, <1>7
<1>11. \A x \in Buckets : quic_pkt_count'[x] > 0 => x = b \/ quic_pkt_count[x] > 0
  BY <1>7
<1>12. QED
  BY <1>1, <1>2, <1>8, <1>9, <1>10, <1>11 DEF Counted, b, s

\* What has counted stays counted.
LEMMA DigestStays ==
  ASSUME NEW r, NEW t, NEW d, DigestOf(r, d),
         \A b \in Buckets : r[b] > 0 => t[b] > 0
  PROVE  DigestOf(t, d)
<1>1. PICK p \in Packets : Quic(p) /\ r[CidBucket(p.cid)] > 0 /\ d = quic_digest(p)
  BY DEF DigestOf, Counted
<1>2. CidBucket(p.cid) \in Buckets
  BY <1>1, CidBucketExists DEF Cids
<1>3. QED
  BY <1>1, <1>2 DEF DigestOf, Counted

\* A short header is the first packet of its bucket only under a rotated ID: with
\* the ID of its flow's Handshake packets, the one that opened the flow was.
LEMMA FirstIsLong ==
  ASSUME CrossedInv, NEW p \in Packets, Send(p), Quic(p), ~Counted(quic_pkt_count, p)
  PROVE  Long(p) \/ Rotated(p)
<1>1. Long(p) \/ Short(p)
  BY PacketsAssumption, Zenon DEF IsQuicForm, Long, Short
<1>2. ASSUME Short(p) PROVE Rotated(p)
  <2>1. flow_tuple(p) \in open
    BY <1>2 DEF Send
  <2>2. PICK q \in Packets : /\ Handshake(q) /\ flow_tuple(q) = flow_tuple(p)
                             /\ Counted(quic_pkt_count, q)
    BY <2>1 DEF CrossedInv
  <2>3. p.cid # q.cid
    BY <2>2 DEF Counted
  <2>4. QED
    BY <1>2, <2>2, <2>3 DEF Rotated
<1>3. QED
  BY <1>1, <1>2

LEMMA SendCrossed ==
  ASSUME TypeOK, PathInv, CrossedInv, NEW p \in Packets, Send(p)
  PROVE  /\ CrossedInv'
         /\ \A b \in Buckets : quic_pkt_count[b] > 0 => quic_pkt_count'[b] > 0
         /\ Counting \subseteq Counting'
<1>1. Process(p) /\ ~Resetting'
  BY DEF Send, Process, Resetting
<1>2. CASE ~Quic(p)
  <2>1. UNCHANGED <<quic_pkt_count, quic_flow_pkts, digests, open>>
    BY <1>1, <1>2 DEF Process, Send, Handshake, Long
  <2>2. QED
    BY <1>1, <2>1 DEF CrossedInv, Counting
<1>3. CASE Quic(p)
  <2>1. /\ CidBucket(p.cid) \in Buckets /\ Counted(quic_pkt_count', p)
        /\ \A b \in Buckets : quic_pkt_count[b] > 0 => quic_pkt_count'[b] > 0
        /\ \A b \in Buckets : quic_pkt_count'[b] > 0 => b = CidBucket(p.cid) \/ quic_pkt_count[b] > 0
        /\ Counting' = Counting \cup {CtrOf(CidBucket(p.cid))}
        /\ digests' = IF Counted(quic_pkt_count, p) THEN digests
                                                    ELSE Append(digests, quic_digest(p))
    BY <1>3, SendCounts
  <2>2. \A b \in Buckets : quic_pkt_count'[b] > 0 => CtrOf(b) \in Counting'
    BY <2>1 DEF CrossedInv
  <2>3. ASSUME NEW f \in open'
        PROVE  \E q \in Packets : /\ Handshake(q) /\ flow_tuple(q) = f
                                  /\ Counted(quic_pkt_count', q)
    <3>1. CASE f \in open
      <4>1. PICK q \in Packets : /\ Handshake(q) /\ flow_tuple(q) = f
                                 /\ Counted(quic_pkt_count, q)
        BY <3>1 DEF CrossedInv
      <4>2. CidBucket(q.cid) \in Buckets
        BY <4>1, ShownIsCid, CidBucketExists DEF Handshake
      <4>3. QED
        BY <2>1, <4>1, <4>2 DEF Counted
    <3>2. CASE f \notin open
      <4>1. Handshake(p) /\ f = flow_tuple(p)
        BY <2>3, <3>2 DEF Send
      <4>2. QED
        BY <2>1, <4>1
    <3>3. QED
      BY <3>1, <3>2
  <2>4. digests \in Seq(Digest) /\ Len(digests) \in Nat
    BY DEF TypeOK
  <2>5. \A i \in 1 .. Len(digests) : DigestOf(quic_pkt_count', digests[i])
    BY <2>1, DigestStays DEF CrossedInv
  <2>6. ASSUME NEW i \in 1 .. Len(digests') PROVE DigestOf(quic_pkt_count', digests'[i])
    <3>1. CASE digests' = digests
      BY <2>5, <2>6, <3>1
    <3>2. CASE digests' # digests
      <4> DEFINE d == quic_digest(p)
      <4>1. d \in Digest /\ digests' = Append(digests, d)
        BY <2>1, <3>2, PacketFields
      <4>2. DigestOf(quic_pkt_count', d)
        BY <1>3, <2>1 DEF DigestOf
      <4> HIDE DEF d
      <4>3. /\ Len(digests') = Len(digests) + 1 /\ digests'[Len(digests) + 1] = d
            /\ \A j \in 1 .. Len(digests) : digests'[j] = digests[j]
        BY <2>4, <4>1
      <4>4. i \in 1 .. Len(digests) \/ i = Len(digests) + 1
        BY <2>4, <2>6, <4>3
      <4>5. QED
        BY <2>5, <4>2, <4>3, <4>4
    <3>3. QED
      BY <3>1, <3>2
  <2>7. QED
    BY <1>1, <2>1, <2>2, <2>3, <2>6 DEF CrossedInv
<1>4. QED
  BY <1>2, <1>3

\* Nothing but a packet touches the registers or opens a flow.
Aside == UNCHANGED <<dcid_len_reg, quic_pkt_count, quic_flow_pkts, quic_flow_bytes,
                     force_len, npackets, open>>

LEMMA MonAside ==
  ASSUME TypeOK, CrossedInv, Monitor \/ (Deliver /\ UNCHANGED waveVars) \/ UNCHANGED monVars
  PROVE  /\ Aside /\ ~Resetting'
         /\ learn_client' \in LearnClients /\ shell' \in Shells /\ nscripts' \in 0 .. MaxScripts
         /\ nolearn' \in BOOLEAN
         /\ digests' = digests \/ (digests # <<>> /\ digests' = Tail(digests))
<1> USE SizesAssumption
    DEF Aside, TypeOK, CrossedInv, Resetting, LearnClients, Shells, pathVars, vars, regVars,
        tblVars, dgstVars, monVars, MonVars, waveVars
<1>1. CASE OnDigest
  BY <1>1 DEF OnDigest
<1>2. CASE OnDigestEndpoint
  BY <1>2 DEF OnDigestEndpoint
<1>3. CASE MonRegister
  BY <1>3 DEF MonRegister
<1>4. CASE MonWarmUp \/ MonRead \/ MonIterate \/ MonGroup
  BY <1>4 DEF MonWarmUp, MonRead, MonIterate, MonGroup
<1>5. CASE MonFatal \/ MonStop
  BY <1>5 DEF MonFatal, MonStop, Leave
<1>10. CASE MonKill
  BY <1>10 DEF MonKill
<1>11. CASE DigestLost
  BY <1>11 DEF DigestLost
<1>6. CASE MonStart
  BY <1>6 DEF MonStart, Begin
<1>7. CASE Deliver /\ UNCHANGED waveVars
  <2>1. nolearn' \in BOOLEAN
    BY <1>7, Zenon DEF Deliver
  <2>2. QED
    BY <1>7, <2>1 DEF Deliver
<1>8. CASE UNCHANGED monVars
  BY <1>8
<1>9. QED
  BY <1>1, <1>2, <1>3, <1>4, <1>5, <1>6, <1>7, <1>8, <1>10, <1>11 DEF Monitor, Callback, MainThread

LEMMA AsideStep ==
  ASSUME TypeOK, PathInv, CrossedInv, Monitor \/ (Deliver /\ UNCHANGED waveVars) \/ UNCHANGED monVars
  PROVE  TypeOK' /\ PathInv' /\ CrossedInv' /\ Counting' = Counting
<1>1. /\ Aside /\ ~Resetting'
      /\ learn_client' \in LearnClients /\ shell' \in Shells /\ nscripts' \in 0 .. MaxScripts
      /\ nolearn' \in BOOLEAN
      /\ digests' = digests \/ (digests # <<>> /\ digests' = Tail(digests))
  BY MonAside
<1>2. digests \in Seq(Digest)
  BY DEF TypeOK
<1>3. /\ digests' \in Seq(Digest) /\ Len(digests) \in Nat
      /\ \A i \in 1 .. Len(digests') :
           \E j \in 1 .. Len(digests) : digests'[i] = digests[j]
  <2>1. CASE digests' = digests
    BY <1>2, <2>1
  <2>2. CASE digests # <<>> /\ digests' = Tail(digests)
    <3>1. /\ digests' \in Seq(Digest) /\ Len(digests) \in Nat /\ Len(digests') = Len(digests) - 1
          /\ \A i \in 1 .. Len(digests') : i + 1 \in 1 .. Len(digests) /\ digests'[i] = digests[i + 1]
      BY <1>2, <2>2
    <3>2. QED
      BY <3>1
  <2>3. QED
    BY <1>1, <2>1, <2>2
<1>4. TypeOK'
  BY <1>1, <1>3 DEF TypeOK, Aside
<1>5. PathInv'
  BY <1>1 DEF PathInv, Aside
<1>6. Counting' = Counting
  BY <1>1 DEF Counting, Aside
<1>7. \A i \in 1 .. Len(digests') : DigestOf(quic_pkt_count', digests'[i])
  BY <1>1, <1>3 DEF CrossedInv, Aside
<1>8. CrossedInv'
  BY <1>1, <1>6, <1>7 DEF CrossedInv, Aside
<1>9. QED
  BY <1>4, <1>5, <1>6, <1>8

\* The callback files a digest below length 20 under a slot that counts, and under
\* an endpoint of it: only a long header's digest says such a length.
LEMMA CallbackFiles ==
  ASSUME FoldsAgree, TypeOK, CrossedInv, NEW d, DigestOf(quic_pkt_count, d),
         d.dcid_len < DcidBytes
  PROVE  ctr_idx(d) \in Counting /\ OfPacket(ctr_idx(d), ClientOf(d), DirOf(d))
<1>1. PICK p \in Packets : Quic(p) /\ Counted(quic_pkt_count, p) /\ d = quic_digest(p)
  BY DEF DigestOf
<1>2. Long(p)
  <2>1. Long(p) \/ Short(p)
    BY <1>1, PacketsAssumption, Zenon DEF IsQuicForm, Long, Short
  <2>2. Short(p) => d.dcid_len = DcidBytes
    BY <1>1 DEF quic_digest, parsed_len, Long, Short
  <2>3. QED
    BY <2>1, <2>2 DEF DcidBytes
<1>3. /\ ctr_idx(d) = CtrOf(CidBucket(p.cid))
      /\ OfPacket(ctr_idx(d), ClientOf(d), DirOf(d))
  BY <1>1, <1>2, FiledSlot
<1>4. CidBucket(p.cid) \in Buckets
  BY <1>2, ShownIsCid, CidBucketExists
<1>5. QED
  BY <1>1, <1>3, <1>4 DEF CrossedInv, Counted

LEMMA FiledStep ==
  ASSUME FoldsAgree, MonInv, [MonNext]_monVars
  PROVE  FiledInv'
<1> USE DEF MonInv
<1>1. CASE (\E p \in Packets : Send(p)) /\ UNCHANGED MonVars
  <2>1. PICK p \in Packets : Send(p)
    BY <1>1
  <2>2. /\ \A b \in Buckets : quic_pkt_count[b] > 0 => quic_pkt_count'[b] > 0
        /\ Counting \subseteq Counting'
    BY <2>1, SendCrossed
  <2>3. UNCHANGED <<cb, ctr_dcid, bucket_dir, bucket_ckey>>
    BY <1>1 DEF MonVars, dictVars
  <2>4. cb # <<>> => DigestOf(quic_pkt_count', cb[1])
    BY <2>2, DigestStays DEF FiledInv
  <2>5. QED
    BY <2>2, <2>3, <2>4 DEF FiledInv, BetweenSteps, HasEndpoint
<1>2. CASE Monitor \/ (Deliver /\ UNCHANGED waveVars /\ UNCHANGED MonVars) \/ UNCHANGED monVars
  <2>1. UNCHANGED quic_pkt_count /\ Counting' = Counting
    BY <1>2, MonAside, AsideStep DEF Aside
  <2>2. CASE UNCHANGED <<cb, dictVars>>
    BY <2>1, <2>2 DEF FiledInv, BetweenSteps, HasEndpoint, dictVars
  <2>3. CASE MonStart \/ MonKill
    <3>1. DOMAIN <<>> = {}
      OBVIOUS
    <3>2. cb' = <<>> /\ ctr_dcid' = <<>>
      BY <2>3 DEF MonStart, MonKill
    <3>3. QED
      BY <3>1, <3>2 DEF FiledInv
  <2>4. CASE OnDigest
    <3> DEFINE d == Head(digests)
               x == ctr_idx(d)
               e == [dcid |-> ShownDcid(d), len |-> d.dcid_len]
    <3>1. /\ UNCHANGED <<bucket_dir, bucket_ckey>> /\ cb = <<>>
          /\ UNCHANGED <<ctr_dcid, cb>> \/ (ctr_dcid' = Put(ctr_dcid, x, e) /\ cb' = <<d>>)
      BY <2>4 DEF OnDigest
    <3>2. d = digests[1] /\ 1 \in 1 .. Len(digests)
      BY <2>4 DEF OnDigest, TypeOK
    <3>3. DigestOf(quic_pkt_count, d) /\ e.len = d.dcid_len
      BY <3>2 DEF CrossedInv
    <3>4. d.dcid_len < DcidBytes => x \in Counting
      BY <3>3, CallbackFiles
    <3>5. CASE UNCHANGED <<ctr_dcid, cb>>
      BY <2>1, <3>1, <3>5 DEF FiledInv, BetweenSteps, HasEndpoint
    <3> HIDE DEF d, e
    <3>6. CASE ctr_dcid' = Put(ctr_dcid, x, e) /\ cb' = <<d>>
      <4>1. /\ DOMAIN ctr_dcid' = DOMAIN ctr_dcid \cup {x}
            /\ \A y \in DOMAIN ctr_dcid' : ctr_dcid'[y] = IF y = x THEN e ELSE ctr_dcid[y]
        BY <3>6 DEF Put
      <4>2. cb'[1] = d /\ cb' # <<>>
        BY <3>6
      <4>3. /\ DigestOf(quic_pkt_count', cb'[1])
            /\ x \in DOMAIN ctr_dcid' /\ ctr_dcid'[x].len = cb'[1].dcid_len
        BY <2>1, <3>3, <4>1, <4>2
      <4>4. ASSUME NEW y \in DOMAIN ctr_dcid', ctr_dcid'[y].len < DcidBytes
            PROVE  y \in Counting' /\ (BetweenSteps(y)' \/ HasEndpoint(y)')
        <5>1. CASE y = x
          BY <2>1, <3>3, <3>4, <4>1, <4>2, <4>4, <5>1 DEF BetweenSteps
        <5>2. CASE y # x
          <6>1. y \in DOMAIN ctr_dcid /\ ctr_dcid[y].len < DcidBytes
            BY <4>1, <4>4, <5>2
          <6>2. y \in Counting /\ HasEndpoint(y)
            BY <3>1, <6>1 DEF FiledInv, BetweenSteps
          <6>3. QED
            BY <2>1, <3>1, <6>2 DEF HasEndpoint
        <5>3. QED
          BY <5>1, <5>2
      <4>5. QED
        BY <4>2, <4>3, <4>4 DEF FiledInv
    <3>7. QED
      BY <3>1, <3>5, <3>6
  <2>5. CASE OnDigestEndpoint
    <3> DEFINE d == cb[1]
               x == ctr_idx(d)
    <3>1. /\ cb # <<>> /\ cb' = <<>> /\ ctr_dcid' = ctr_dcid
          /\ bucket_dir' = Put(bucket_dir, x, DirOf(d))
          /\ bucket_ckey' = Put(bucket_ckey, x, ClientOf(d))
      BY <2>5 DEF OnDigestEndpoint
    <3>2. DigestOf(quic_pkt_count, d) /\ ctr_dcid[x].len = d.dcid_len
      BY <3>1 DEF FiledInv
    <3>3. d.dcid_len < DcidBytes => OfPacket(x, ClientOf(d), DirOf(d))
      BY <3>2, CallbackFiles
    <3>4. \A y : BetweenSteps(y) => y = x
      BY DEF BetweenSteps
    <3> HIDE DEF x, d
    <3>5. /\ DOMAIN bucket_dir' = DOMAIN bucket_dir \cup {x}
          /\ DOMAIN bucket_ckey' = DOMAIN bucket_ckey \cup {x}
          /\ \A y \in DOMAIN bucket_ckey' :
               bucket_ckey'[y] = IF y = x THEN ClientOf(d) ELSE bucket_ckey[y]
          /\ \A y \in DOMAIN bucket_dir' : bucket_dir'[y] = IF y = x THEN DirOf(d) ELSE bucket_dir[y]
      BY <3>1 DEF Put
    <3>6. ASSUME NEW y \in DOMAIN ctr_dcid', ctr_dcid'[y].len < DcidBytes
          PROVE  y \in Counting' /\ HasEndpoint(y)'
      <4>1. y \in Counting /\ (BetweenSteps(y) \/ HasEndpoint(y))
        BY <3>1, <3>6 DEF FiledInv
      <4>2. CASE y = x
        <5>1. OfPacket(x, ClientOf(d), DirOf(d))
          BY <3>1, <3>2, <3>3, <3>6, <4>2
        <5>2. bucket_ckey'[y] = ClientOf(d) /\ bucket_dir'[y] = DirOf(d)
          BY <3>5, <4>2
        <5>3. QED
          BY <2>1, <3>5, <4>1, <4>2, <5>1, <5>2 DEF HasEndpoint
      <4>3. CASE y # x
        <5>1. HasEndpoint(y)
          BY <3>4, <4>1, <4>3
        <5>2. /\ y \in DOMAIN bucket_ckey' /\ y \in DOMAIN bucket_dir'
              /\ bucket_ckey'[y] = bucket_ckey[y] /\ bucket_dir'[y] = bucket_dir[y]
          BY <3>5, <4>3, <5>1 DEF HasEndpoint
        <5>3. QED
          BY <2>1, <4>1, <5>1, <5>2 DEF HasEndpoint
      <4>4. QED
        BY <4>2, <4>3
    <3>7. QED
      BY <3>1, <3>6 DEF FiledInv
  <2>6. MonRegister \/ MonWarmUp \/ MonRead \/ MonIterate \/ MonGroup \/ MonFatal \/ MonStop
          \/ DigestLost => UNCHANGED <<cb, dictVars>>
    BY DEF MonRegister, MonWarmUp, MonRead, MonIterate, MonGroup, MonFatal, MonStop, Leave,
           DigestLost, MonVars
  <2>7. QED
    BY <1>2, <2>2, <2>3, <2>4, <2>5, <2>6 DEF Monitor, Callback, MainThread, MonVars, monVars
<1>3. QED
  BY <1>1, <1>2 DEF MonNext

\* The invariant of the monitor, if its fold is the switch's.
THEOREM MonInvariant ==
  ASSUME FoldsAgree
  PROVE  MonSpec => []MonInv
<1>1. MonInit => MonInv
  <2> SUFFICES ASSUME MonInit PROVE MonInv
    OBVIOUS
  <2>1. /\ nolearn \in BOOLEAN /\ digests \in Seq(Digest)
        /\ force_len \in Arms /\ learn_client \in LearnClients /\ shell \in Shells
    <3>1. nolearn \in BOOLEAN
      BY Zenon DEF MonInit
    <3>2. QED
      BY <3>1 DEF MonInit, Arms, LearnClients, Shells
  <2>2. TypeOK
    BY <2>1, SizesAssumption DEF MonInit, TypeOK
  <2>3. PathInv /\ CrossedInv
    BY SizesAssumption DEF MonInit, PathInv, CrossedInv, Resetting, Counting
  <2>4. DOMAIN <<>> = {}
    OBVIOUS
  <2>5. FiledInv
    BY <2>4 DEF MonInit, FiledInv
  <2>6. QED
    BY <2>2, <2>3, <2>5 DEF MonInv
<1>2. MonInv /\ [MonNext]_monVars => MonInv'
  <2> SUFFICES ASSUME MonInv, [MonNext]_monVars PROVE MonInv'
    OBVIOUS
  <2>1. FiledInv'
    BY FiledStep
  <2>2. CASE \E p \in Packets : Send(p)
    <3>1. PICK p \in Packets : Send(p)
      BY <2>2
    <3>2. Process(p)
      BY <3>1 DEF Send
    <3>3. QED
      BY <2>1, <3>1, <3>2, ProcessType, SendInv, SendCrossed DEF MonInv
  <2>3. CASE Monitor \/ (Deliver /\ UNCHANGED waveVars) \/ UNCHANGED monVars
    BY <2>1, <2>3, AsideStep DEF MonInv
  <2>4. QED
    BY <2>2, <2>3 DEF MonNext
<1>3. QED
  BY <1>1, <1>2, PTL DEF MonSpec

\* Every slot the monitor knows from a long header is one the switch counts in, and
\* but for the moment between the callback's two steps its endpoint and direction are
\* those of a packet hashed there, whatever short headers under rotated IDs file.
THEOREM AttributionInvariant ==
  ASSUME FoldsAgree
  PROVE  MonSpec => []Attribution
<1>1. MonInv => Attribution
  <2> SUFFICES ASSUME FiledInv, NEW idx \in DOMAIN ctr_dcid, ctr_dcid[idx].len < DcidBytes
               PROVE  /\ idx \in Counting
                      /\ ~BetweenSteps(idx) =>
                           idx \in DOMAIN bucket_ckey /\ \E p \in Packets :
                              /\ Quic(p) /\ CtrOf(CidBucket(p.cid)) = idx
                              /\ bucket_ckey[idx] = IF p.sp = 443 THEN <<p.dst, p.dp>>
                                                                 ELSE <<p.src, p.sp>>
                              /\ bucket_dir[idx] = IF p.sp = 443 THEN "dn" ELSE "up"
    BY Zenon DEF MonInv, Attribution
  <2>1. idx \in Counting /\ (~BetweenSteps(idx) => HasEndpoint(idx))
    BY DEF FiledInv
  <2>2. HasEndpoint(idx) => /\ idx \in DOMAIN bucket_ckey
                            /\ OfPacket(idx, bucket_ckey[idx], bucket_dir[idx])
    BY DEF HasEndpoint
  <2>3. QED
    BY <2>1, <2>2 DEF OfPacket, ClientOf, DirOf
<1>2. QED
  BY <1>1, MonInvariant, PTL

\* Under the monitor a bucket that starts counting leaves a digest that files it.
LEMMA WaitingStep ==
  ASSUME FoldsAgree, \A c \in Cids : Len(c) # 0, MonInv, WaitingInv, [MonNext]_monVars
  PROVE  WaitingInv'
<1> USE DEF MonInv
<1>1. CASE ~Watching'
  BY <1>1 DEF WaitingInv
<1>2. digests \in Seq(Digest) /\ Len(digests) \in Nat
  BY DEF TypeOK
<1>3. CASE (\E p \in Packets : Send(p)) /\ UNCHANGED MonVars
  <2>1. PICK p \in Packets : Send(p)
    BY <1>3
  <2>2. UNCHANGED <<base, ctr_dcid>> /\ Watching' = Watching
    BY <1>3, <2>1 DEF Send, Process, MonVars, dictVars, Watching
  <2> SUFFICES ASSUME Watching,
                      NEW c \in Counting', c \notin base \cup RotatedSlots \cup DOMAIN ctr_dcid
               PROVE  \E i \in 1 .. Len(digests') : Filed(digests'[i]) /\ ctr_idx(digests'[i]) = c
    BY <2>2 DEF WaitingInv
  <2>3. CASE c \in Counting
    <3>1. PICK i \in 1 .. Len(digests) : Filed(digests[i]) /\ ctr_idx(digests[i]) = c
      BY <2>3 DEF WaitingInv
    <3>2. digests' = digests \/ \E d \in Digest : digests' = Append(digests, d)
      BY <2>1, PacketFields DEF Send, Process, Count
    <3>3. i \in 1 .. Len(digests') /\ digests'[i] = digests[i]
      <4>1. CASE digests' = digests
        BY <4>1
      <4>2. ASSUME NEW d \in Digest, digests' = Append(digests, d)
            PROVE  i \in 1 .. Len(digests') /\ digests'[i] = digests[i]
        BY <1>2, <4>2
      <4>3. QED
        BY <3>2, <4>1, <4>2
    <3>4. QED
      BY <3>1, <3>3
  <2>4. CASE c \notin Counting
    <3>1. Quic(p)
      BY <2>1, <2>4 DEF Send, Process, Counting
    <3>2. /\ p.cid \in Cids /\ CidBucket(p.cid) \in Buckets
          /\ Counting' = Counting \cup {CtrOf(CidBucket(p.cid))}
          /\ digests' = IF Counted(quic_pkt_count, p) THEN digests
                                                      ELSE Append(digests, quic_digest(p))
      BY <2>1, <3>1, SendCounts
    <3>3. c = CtrOf(CidBucket(p.cid))
      BY <2>4, <3>2
    <3>4. ~Counted(quic_pkt_count, p)
      BY <2>4, <3>2, <3>3 DEF CrossedInv, Counted
    <3>5. Long(p)
      <4>1. ~Rotated(p)
        BY <3>3 DEF RotatedSlots
      <4>2. QED
        BY <2>1, <3>1, <3>4, <4>1, FirstIsLong
    <3> DEFINE d == quic_digest(p)
    <3>6. d \in Digest /\ digests' = Append(digests, d) /\ ctr_idx(d) = c
      BY <3>2, <3>3, <3>4, <3>5, FiledSlot, PacketFields
    <3>7. Filed(d)
      BY <3>2, <3>5, ShownIsCid DEF Filed
    <3> HIDE DEF d
    <3>8. Len(digests) + 1 \in 1 .. Len(digests') /\ digests'[Len(digests) + 1] = d
      BY <1>2, <3>6
    <3>9. QED
      BY <3>6, <3>7, <3>8
  <2>5. QED
    BY <2>3, <2>4
<1>4. CASE OnDigest
  <2> DEFINE d == Head(digests)
  <2>1. /\ Watching /\ UNCHANGED base /\ Counting' = Counting
        /\ digests # <<>> /\ digests' = Tail(digests)
        /\ IF d.dcid_len = 0 THEN ctr_dcid' = ctr_dcid
           ELSE ctr_dcid' = Put(ctr_dcid, ctr_idx(d), [dcid |-> ShownDcid(d), len |-> d.dcid_len])
    BY <1>4, AsideStep DEF OnDigest, Monitor, Callback
  <2>2. d = digests[1] /\ Len(digests') = Len(digests) - 1
        /\ \A i \in 1 .. Len(digests') : digests'[i] = digests[i + 1]
    BY <1>2, <2>1
  <2> HIDE DEF d
  <2>3. DOMAIN ctr_dcid \subseteq DOMAIN ctr_dcid' /\ (Filed(d) => ctr_idx(d) \in DOMAIN ctr_dcid')
    BY <2>1 DEF Put, Filed
  <2>4. ASSUME NEW c \in Counting, c \notin base \cup RotatedSlots \cup DOMAIN ctr_dcid'
        PROVE  \E i \in 1 .. Len(digests') : Filed(digests'[i]) /\ ctr_idx(digests'[i]) = c
    <3>1. PICK i \in 1 .. Len(digests) : Filed(digests[i]) /\ ctr_idx(digests[i]) = c
      BY <2>1, <2>3, <2>4 DEF WaitingInv
    <3>2. i # 1
      BY <2>2, <2>3, <2>4, <3>1
    <3> DEFINE j == i - 1
    <3>3. j \in 1 .. Len(digests') /\ j + 1 = i
      BY <1>2, <2>2, <3>2
    <3> HIDE DEF j
    <3>4. digests'[j] = digests[i]
      BY <2>2, <3>3
    <3>5. QED
      BY <3>1, <3>3, <3>4
  <2>5. QED
    BY <2>1, <2>4 DEF WaitingInv
<1>5. CASE MonRegister
  <2>1. base' = Counting /\ Counting' = Counting
    BY <1>5, AsideStep DEF MonRegister, Monitor, MainThread
  <2>2. QED
    BY <2>1 DEF WaitingInv
<1>6. CASE \/ OnDigestEndpoint \/ MonWarmUp \/ MonRead \/ MonIterate \/ MonGroup
           \/ UNCHANGED monVars
  <2>1. UNCHANGED <<learn_client, digests, ctr_dcid, base, quic_flow_pkts>>
    BY <1>6 DEF OnDigestEndpoint, MonWarmUp, MonRead, MonIterate, MonGroup, monVars, MonVars,
                pathVars, vars, regVars, dgstVars, dictVars
  <2>2. Counting' = Counting
    BY <2>1 DEF Counting
  <2>3. Watching' => Watching
    BY <1>6, <2>1 DEF OnDigestEndpoint, MonWarmUp, MonRead, MonIterate, MonGroup, Main, monVars,
                      MonVars, Watching
  <2>4. QED
    BY <2>1, <2>2, <2>3 DEF WaitingInv
<1>7. CASE MonStart \/ MonFatal \/ MonStop \/ MonKill \/ DigestLost
           \/ (Deliver /\ UNCHANGED MonVars)
  BY <1>1, <1>7 DEF MonStart, MonFatal, MonStop, MonKill, DigestLost, Leave, Deliver, MonVars,
                    Watching
<1>8. QED
  BY <1>3, <1>4, <1>5, <1>6, <1>7 DEF MonNext, Monitor, Callback, MainThread

\* With every digest handled, the monitor knows every slot that started counting
\* under it; a connection without an ID is the one it cannot know.
THEOREM IdentifiedInvariant ==
  ASSUME FoldsAgree, \A c \in Cids : Len(c) # 0
  PROVE  MonSpec => []AllIdentified
<1>1. MonInit => WaitingInv
  BY DEF MonInit, WaitingInv, Watching
<1>2. MonInv /\ WaitingInv /\ [MonNext]_monVars => WaitingInv'
  BY WaitingStep
<1>3. MonInv /\ WaitingInv => AllIdentified
  <2> SUFFICES ASSUME MonInv, WaitingInv, Watching, digests = <<>>
               PROVE  Counting \subseteq base \cup RotatedSlots \cup DOMAIN ctr_dcid
    BY DEF AllIdentified
  <2>1. \A i \in 1 .. Len(digests) : FALSE
    OBVIOUS
  <2>2. QED
    BY <2>1 DEF WaitingInv
<1>4. QED
  BY <1>1, <1>2, <1>3, MonInvariant, PTL DEF MonSpec

=============================================================================
