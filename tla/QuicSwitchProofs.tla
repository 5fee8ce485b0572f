-------------------------- MODULE QuicSwitchProofs --------------------------
(***************************************************************************)
(* Theorems about QuicSwitch and QuicReset, for every packet set, hash     *)
(* function and register size.                                             *)
(***************************************************************************)
EXTENDS QuicReset, OperatorProofs

-----------------------------------------------------------------------------
(* Types *)

\* The fields of a packet, by type.
LEMMA PacketFields ==
  ASSUME NEW p \in Packets
  PROVE  /\ p.dcid_len \in 0 .. 255
         /\ p.dcid \in Dcid
         /\ p.cid \in Seq(Byte)
         /\ p.bytes \in Nat
         /\ quic_digest(p) \in Digest
         /\ flow_key(p) \in Keys
<1>1. IsQuicDcid(p)
  BY PacketsAssumption
<1>2. /\ p.dcid_len \in 0 .. 255
      /\ p.dcid \in Dcid
      /\ p.cid \in Seq(Byte)
      /\ p.bytes \in Nat
  BY <1>1, Zenon DEF IsQuicDcid
<1>4. quic_digest(p) \in Digest
  BY DEF Digest
<1>5. flow_key(p) \in Keys
  <2>1. CRC16(flow_tuple(p)) \in Nat
    BY HashAssumption
  <2>2. QED
    BY <2>1, ModRange, SizesAssumption DEF flow_key, Keys
<1>6. QED
  BY <1>2, <1>4, <1>5

\* The bucket and the slot a QUIC packet counts in exist.
LEMMA BucketExists ==
  ASSUME TypeOK, NEW p \in Packets
  PROVE  /\ eff_len(p) \in 0 .. 255
         /\ flow_id(p) \in Buckets
         /\ CtrOf(flow_id(p)) \in Ctrs
<1>1. eff_len(p) \in 0 .. 255
  <2>1. dcid_len_reg[flow_key(p)] \in 0 .. 255
    BY PacketFields DEF TypeOK
  <2>2. force_len \in 0 .. 255 /\ p.dcid_len \in 0 .. 255
    BY PacketFields DEF TypeOK, Arms
  <2>3. QED
    BY <2>1, <2>2 DEF eff_len
<1>2. CRC32(Masked(p.dcid, eff_len(p))) \in Nat
  BY <1>1, HashAssumption
<1>3. flow_id(p) \in Buckets
  BY <1>2, ModRange, SizesAssumption DEF flow_id, dcid_hash, Buckets
<1>4. flow_id(p) \in Nat
  BY <1>3, SizesAssumption DEF Buckets
<1>5. CtrOf(flow_id(p)) \in Ctrs
  BY <1>4, ModRange, SizesAssumption DEF CtrOf, Ctrs
<1>6. QED
  BY <1>1, <1>3, <1>5

\* A QUIC or other packet keeps every cell within its width.
LEMMA ProcessType ==
  ASSUME TypeOK, NEW p \in Packets, Process(p)
  PROVE  TypeOK'
<1> DEFINE b == flow_id(p)
           c == CtrOf(flow_id(p))
<1>1. b \in Buckets /\ c \in Ctrs
  BY BucketExists
<1>2. dcid_len_reg' \in [Keys -> 0 .. 255]
  BY PacketFields DEF Process, Learn, TypeOK
<1>3. npackets' \in 0 .. MaxPackets
  BY SizesAssumption DEF Process, TypeOK
<1>4. /\ quic_pkt_count' \in [Buckets -> 0 .. CntMod - 1]
      /\ quic_flow_pkts' \in [Ctrs -> Nat]
      /\ quic_flow_bytes' \in [Ctrs -> Nat]
      /\ digests' \in Seq(Digest)
  <2>1. CASE Quic(p)
    <3>1. quic_pkt_count[b] \in Nat
      BY <1>1, SizesAssumption DEF TypeOK
    <3>2. count_quic(b) \in 0 .. CntMod - 1
      <4>1. quic_pkt_count[b] + 1 \in Nat
        BY <3>1
      <4>2. CntMod \in Nat \ {0}
        BY SizesAssumption
      <4>3. QED
        BY <4>1, <4>2, ModRange DEF count_quic
    <3>3. quic_pkt_count' \in [Buckets -> 0 .. CntMod - 1]
      <4>1. quic_pkt_count' = [quic_pkt_count EXCEPT ![b] = count_quic(b)]
        BY <2>1 DEF Process, Count
      <4>2. QED
        BY <4>1, <1>1, <3>2 DEF TypeOK
    <3>4. quic_flow_pkts' \in [Ctrs -> Nat]
      <4>1. quic_flow_pkts' = [quic_flow_pkts EXCEPT ![c] = quic_flow_pkts[c] + 1]
        BY <2>1 DEF Process, Count
      <4>2. QED
        BY <4>1, <1>1 DEF TypeOK
    <3>5. quic_flow_bytes' \in [Ctrs -> Nat]
      <4>1. quic_flow_bytes' = [quic_flow_bytes EXCEPT ![c] = quic_flow_bytes[c] + p.bytes]
        BY <2>1 DEF Process, Count
      <4>2. quic_flow_bytes[c] + p.bytes \in Nat
        BY <1>1, PacketFields DEF TypeOK
      <4>3. QED
        BY <4>1, <4>2, <1>1 DEF TypeOK
    <3>6. digests' \in Seq(Digest)
      <4>1. digests \in Seq(Digest) /\ quic_digest(p) \in Digest
        BY PacketFields DEF TypeOK
      <4>2. Append(digests, quic_digest(p)) \in Seq(Digest)
        BY <4>1
      <4>3. digests' = Append(digests, quic_digest(p)) \/ digests' = digests
        BY <2>1 DEF Process, Count
      <4>4. QED
        BY <4>1, <4>2, <4>3
    <3>7. QED
      BY <3>3, <3>4, <3>5, <3>6
  <2>2. CASE ~Quic(p)
    BY <2>2 DEF Process, TypeOK
  <2>3. QED
    BY <2>1, <2>2
<1>5. QED
  BY <1>2, <1>3, <1>4 DEF Process, TypeOK, tblVars

\* One bfrt call of setup.py or of an arm script keeps the types.
LEMMA ScriptType ==
  ASSUME TypeOK, Setup \/ (\E len \in Arms : SetArm(len))
  PROVE  TypeOK'
<1> USE DEF TypeOK, regVars, dgstVars, tblVars, Begin, Continue, Shells, LearnClients
<1>1. CASE SetupClear
  BY <1>1, SizesAssumption DEF SetupClear
<1>2. CASE SetupForward
  <2>1. /\ UNCHANGED <<regVars, dgstVars, force_len, npackets, nscripts>>
        /\ shell' \in {"fwd_136", "fwd_128"}
    BY <1>2 DEF SetupForward, AddForward
  <2>2. QED
    BY <2>1
<1>3. CASE SetupArm
  BY <1>3 DEF SetupArm, Arms
<1>4. CASE SetupDeregister
  BY <1>4 DEF SetupDeregister
<1>5. CASE SetupRegister
  BY <1>5 DEF SetupRegister
<1>6. CASE \E len \in Arms : SetArm(len)
  BY <1>6, SizesAssumption DEF SetArm
<1>7. QED
  BY <1>1, <1>2, <1>3, <1>4, <1>5, <1>6 DEF Setup

\* So does each of the three clears of reset_counts.py.
LEMMA ResetType ==
  ASSUME TypeOK, Reset
  PROVE  TypeOK'
<1> USE DEF TypeOK, regVars, dgstVars, tblVars, Begin, Continue, Shells, LearnClients
<1>1. CASE ResetPktCount
  BY <1>1, SizesAssumption DEF ResetPktCount
<1>2. CASE ResetFlowBytes
  BY <1>2 DEF ResetFlowBytes
<1>3. CASE ResetLens
  BY <1>3 DEF ResetLens
<1>4. QED
  BY <1>1, <1>2, <1>3 DEF Reset

LEMMA DeliverType ==
  ASSUME TypeOK, Deliver
  PROVE  TypeOK'
<1>1. digests' \in Seq(Digest)
  BY DEF TypeOK, Deliver
<1>2. nolearn' \in BOOLEAN
  BY Zenon DEF TypeOK, Deliver
<1>3. QED
  BY <1>1, <1>2 DEF TypeOK, Deliver, regVars, tblVars

\* The program just loaded is typed.
LEMMA InitType == ASSUME Init PROVE TypeOK
<1>1. digests \in Seq(Digest)
  BY DEF Init
<1>2. nolearn \in BOOLEAN
  BY Zenon DEF Init
<1>3. /\ force_len \in Arms /\ learn_client \in LearnClients
      /\ shell \in Shells
  BY DEF Init, Arms, Shells, LearnClients
<1>4. /\ dcid_len_reg \in [Keys -> 0 .. 255]
      /\ quic_pkt_count \in [Buckets -> 0 .. CntMod - 1]
      /\ quic_flow_pkts \in [Ctrs -> Nat]
      /\ quic_flow_bytes \in [Ctrs -> Nat]
  BY SizesAssumption DEF Init
<1>5. npackets \in 0 .. MaxPackets /\ nscripts \in 0 .. MaxScripts
  BY SizesAssumption DEF Init
<1>6. QED
  BY <1>1, <1>2, <1>3, <1>4, <1>5 DEF TypeOK

\* Every register cell, table and queue stays within its width: cells of the
\* packet register wrap, keys and buckets never index past their arrays.
THEOREM TypeCorrect == Spec => []TypeOK
<1>1. Init => TypeOK
  BY InitType
<1>2. TypeOK /\ [Next]_vars => TypeOK'
  <2> SUFFICES ASSUME TypeOK, [Next]_vars
               PROVE  TypeOK'
    OBVIOUS
  <2>1. CASE \E p \in Packets : Process(p)
    BY <2>1, ProcessType
  <2>2. CASE Deliver
    BY <2>2, DeliverType
  <2>3. CASE Setup \/ (\E len \in Arms : SetArm(len))
    BY <2>3, ScriptType
  <2>4. CASE Reset
    BY <2>4, ResetType
  <2>5. CASE UNCHANGED vars
    BY <2>5 DEF vars, regVars, tblVars, dgstVars, TypeOK
  <2>6. QED
    BY <2>1, <2>2, <2>3, <2>4, <2>5 DEF Next
<1>3. QED
  BY <1>1, <1>2, PTL DEF Spec

-----------------------------------------------------------------------------
(* Learned lengths and buckets *)

\* The learned lengths survive a step: only a Handshake writes one.
LEMMA LearnedStep ==
  ASSUME TypeOK, LearnedFromHandshake, [Next]_vars
  PROVE  LearnedFromHandshake'
<1>1. CASE \E p \in Packets : Process(p)
  <2> PICK p \in Packets : Process(p)
    BY <1>1
  <2>1. CASE Handshake(p)
    <3>1. dcid_len_reg' = [dcid_len_reg EXCEPT ![flow_key(p)] = p.dcid_len]
      BY <2>1 DEF Process, Learn
    <3>2. QED
      BY <2>1, <3>1, PacketFields DEF LearnedFromHandshake, TypeOK
  <2>2. CASE ~Handshake(p)
    BY <2>2 DEF Process, Learn, LearnedFromHandshake
  <2>3. QED
    BY <2>1, <2>2
<1>2. CASE ResetLens
  BY <1>2 DEF ResetLens, LearnedFromHandshake
<1>3. CASE UNCHANGED dcid_len_reg
  BY <1>3 DEF LearnedFromHandshake
<1>4. QED
  <2>1. [Next]_vars => \/ \E p \in Packets : Process(p)
                       \/ ResetLens
                       \/ UNCHANGED dcid_len_reg
    BY DEF Next, Setup, Reset, Deliver, SetupClear, SetupForward, AddForward,
           SetupArm, SetupDeregister, SetupRegister, SetArm, ResetPktCount,
           ResetFlowBytes, vars, regVars
  <2>2. QED
    BY <1>1, <1>2, <1>3, <2>1

\* No Initial, and no other flow than those with the same key, ever decides a
\* learned length.
THEOREM LearnedInvariant == Spec => []LearnedFromHandshake
<1>1. Init => LearnedFromHandshake
  BY DEF Init, LearnedFromHandshake
<1>2. TypeOK /\ LearnedFromHandshake /\ [Next]_vars => LearnedFromHandshake'
  BY LearnedStep
<1>3. QED
  BY <1>1, <1>2, TypeCorrect, PTL DEF Spec

\* The bucket of a packet whose effective length is 0, too long, or its own.
LEMMA EffectiveBucket ==
  ASSUME TypeOK, NEW p \in Packets, Quic(p),
         \/ eff_len(p) = 0
         \/ eff_len(p) = Len(p.cid)
  PROVE  flow_id(p) \in {CidBucket(p.cid), ZeroBucket}
<1>1. /\ eff_len(p) \in 0 .. 255 /\ p.dcid \in Dcid /\ p.cid \in Seq(Byte)
      /\ Shows(p.dcid, p.cid)
  BY BucketExists, PacketFields, WireAssumption
<1>2. CASE eff_len(p) = 0 \/ eff_len(p) > DcidBytes
  <2>1. Masked(p.dcid, eff_len(p)) = Padded(<<>>)
    BY <1>1, <1>2, MaskDropsAll
  <2>2. QED
    BY <2>1 DEF flow_id, ZeroBucket, CidBucket
<1>3. CASE eff_len(p) = Len(p.cid) /\ Len(p.cid) <= DcidBytes
  <2>1. Masked(p.dcid, eff_len(p)) = Padded(p.cid)
    BY <1>1, <1>3, MaskKeepsCid
  <2>2. QED
    BY <2>1 DEF flow_id, CidBucket
<1>4. QED
  BY <1>1, <1>2, <1>3 DEF DcidBytes

\* In the length-aware arm ciphertext never reaches the hash: every packet of
\* a flow whose key it does not share counts in its CID's bucket or in the
\* bucket of the empty mask.
THEOREM AwareInvariant == Spec => []AwareBuckets
<1>1. TypeOK /\ LearnedFromHandshake => AwareBuckets
  <2> SUFFICES ASSUME TypeOK, LearnedFromHandshake, force_len = 0,
                      NEW p \in Packets, Quic(p), Short(p) => Unshared(p)
               PROVE  flow_id(p) \in {CidBucket(p.cid), ZeroBucket}
    BY DEF AwareBuckets
  <2>1. CASE Long(p)
    <3>1. eff_len(p) = Len(p.cid)
      BY <2>1, WireAssumption DEF eff_len, Long, Short
    <3>2. QED
      BY <3>1, EffectiveBucket
  <2>2. CASE Short(p)
    <3>1. eff_len(p) = dcid_len_reg[flow_key(p)]
      BY <2>2 DEF eff_len, Long, Short
    <3>2. dcid_len_reg[flow_key(p)] = 0 \/ dcid_len_reg[flow_key(p)] = Len(p.cid)
      BY <2>2, PacketFields DEF LearnedFromHandshake, Unshared
    <3>3. QED
      BY <3>1, <3>2, EffectiveBucket
  <2>3. Long(p) \/ Short(p)
    BY PacketsAssumption, Zenon DEF IsQuicForm, Long, Short
  <2>4. QED
    BY <2>1, <2>2, <2>3
<1>2. QED
  BY <1>1, TypeCorrect, LearnedInvariant, PTL

-----------------------------------------------------------------------------
(* Counters *)

\* No cell of the packet register counts more than the packets processed.
CellsBounded == \A b \in Buckets : quic_pkt_count[b] <= npackets

\* The buckets folded onto a slot are finitely many.
LEMMA FoldedFinite == \A c : IsFiniteSet(Folded(c)) /\ Folded(c) \subseteq Buckets
<1>1. IsFiniteSet(Buckets)
  BY FS_Interval, SizesAssumption DEF Buckets
<1>2. \A c : Folded(c) \subseteq Buckets
  BY DEF Folded
<1>3. QED
  BY <1>1, <1>2, FS_Subset

\* The cells of a typed register, and their sum over a slot, are naturals.
LEMMA CellsNat ==
  ASSUME NEW f \in [Buckets -> 0 .. CntMod - 1]
  PROVE  /\ \A b \in Buckets : f[b] \in Nat
         /\ \A c : SumFunctionOnSet(f, Folded(c)) \in Nat
<1>1. \A b \in Buckets : f[b] \in Nat
  BY SizesAssumption
<1>2. ASSUME NEW c PROVE SumFunctionOnSet(f, Folded(c)) \in Nat
  <2>1. \A x \in Folded(c) : f[x] \in Nat
    BY <1>1, FoldedFinite
  <2>2. QED
    BY <2>1, FoldedFinite, SumNat
<1>3. QED
  BY <1>1, <1>2

\* A register of zeros sums to zero.
LEMMA ClearedSum ==
  ASSUME NEW c
  PROVE  SumFunctionOnSet([b \in Buckets |-> 0], Folded(c)) = 0
<1>1. \A x \in Folded(c) : [b \in Buckets |-> 0][x] = 0
  BY FoldedFinite
<1>2. QED
  BY <1>1, FoldedFinite, SumZero

\* The bound on the cells survives a step: count_quic adds at most one.
LEMMA CellsStep ==
  ASSUME TypeOK, CellsBounded, [Next]_vars
  PROVE  CellsBounded'
<1>1. CASE \E p \in Packets : Process(p)
  <2> PICK p \in Packets : Process(p)
    BY <1>1
  <2>0. npackets' = npackets + 1 /\ npackets \in Nat
    BY SizesAssumption DEF Process, TypeOK
  <2>1. CASE Quic(p)
    <3> DEFINE b == flow_id(p)
    <3>1. b \in Buckets /\ \A x \in Buckets : quic_pkt_count[x] \in Nat
      BY BucketExists, CellsNat DEF TypeOK
    <3>2. quic_pkt_count' = [quic_pkt_count EXCEPT ![b] = count_quic(b)]
      BY <2>1 DEF Process, Count
    <3>3. count_quic(b) \in Nat /\ count_quic(b) <= quic_pkt_count[b] + 1
      <4>1. \A x \in Nat : x % CntMod \in Nat /\ x % CntMod <= x
        BY SizesAssumption
      <4>2. QED
        BY <3>1, <4>1 DEF count_quic
    <3>4. ASSUME NEW x \in Buckets PROVE quic_pkt_count'[x] <= npackets'
      <4>1. quic_pkt_count[x] <= npackets
        BY DEF CellsBounded
      <4>2. quic_pkt_count'[x] = IF x = b THEN count_quic(b) ELSE quic_pkt_count[x]
        BY <3>2 DEF TypeOK
      <4>3. QED
        BY <4>1, <4>2, <3>1, <3>3, <2>0
    <3>5. QED
      BY <3>4 DEF CellsBounded
  <2>2. CASE ~Quic(p)
    <3>1. quic_pkt_count' = quic_pkt_count
      BY <2>2 DEF Process
    <3>2. \A x \in Buckets : quic_pkt_count[x] \in Nat
      BY CellsNat DEF TypeOK
    <3>3. QED
      BY <2>0, <3>1, <3>2 DEF CellsBounded
  <2>3. QED
    BY <2>1, <2>2
<1>2. CASE ResetPktCount
  BY <1>2, SizesAssumption DEF ResetPktCount, CellsBounded, TypeOK
<1>3. CASE UNCHANGED <<quic_pkt_count, npackets>>
  BY <1>3 DEF CellsBounded
<1>4. QED
  <2>1. \/ \E p \in Packets : Process(p)
        \/ ResetPktCount
        \/ UNCHANGED <<quic_pkt_count, npackets>>
    BY DEF Next, Setup, Reset, Deliver, SetupClear, SetupForward, AddForward,
           SetupArm, SetupDeregister, SetupRegister, SetArm, ResetLens,
           ResetFlowBytes, vars, regVars
  <2>2. QED
    BY <1>1, <1>2, <1>3, <2>1

\* A packet that no cell wraps at adds one to its slot and one to the slot's
\* sum, and leaves every other slot and sum alone.
LEMMA CountStep ==
  ASSUME TypeOK, CellsBounded, NEW p \in Packets, Process(p), npackets' < CntMod,
         Quic(p), NEW c \in Ctrs
  PROVE  LET d == IF c = CtrOf(flow_id(p)) THEN 1 ELSE 0
         IN /\ SumFunctionOnSet(quic_pkt_count', Folded(c))
                 = SumFunctionOnSet(quic_pkt_count, Folded(c)) + d
            /\ quic_flow_pkts'[c] = quic_flow_pkts[c] + d
<1> DEFINE b == flow_id(p)
           S == Folded(c)
<1>1. b \in Buckets /\ CtrOf(b) \in Ctrs
  BY BucketExists
<1>2. \A x \in Buckets : quic_pkt_count[x] \in Nat
  BY CellsNat DEF TypeOK
<1>3. count_quic(b) = quic_pkt_count[b] + 1
  <2>1. quic_pkt_count[b] <= npackets /\ npackets \in Nat /\ npackets' = npackets + 1
    BY <1>1, SizesAssumption DEF CellsBounded, Process, TypeOK
  <2>2. quic_pkt_count[b] + 1 \in 0 .. CntMod - 1
    BY <1>1, <1>2, <2>1, SizesAssumption
  <2>3. \A x \in 0 .. CntMod - 1 : x % CntMod = x
    BY SizesAssumption
  <2>4. QED
    BY <2>2, <2>3 DEF count_quic
<1>4. /\ quic_pkt_count' = [quic_pkt_count EXCEPT ![b] = quic_pkt_count[b] + 1]
      /\ quic_flow_pkts' = [quic_flow_pkts EXCEPT ![CtrOf(b)] = quic_flow_pkts[CtrOf(b)] + 1]
  BY <1>3 DEF Process, Count
<1>5. quic_flow_pkts'[c] = quic_flow_pkts[c] + (IF c = CtrOf(b) THEN 1 ELSE 0)
  BY <1>1, <1>4 DEF TypeOK
<1>6. \A x \in Buckets : /\ quic_pkt_count'[x] \in Nat
                         /\ x # b => quic_pkt_count'[x] = quic_pkt_count[x]
  BY <1>1, <1>2, <1>4 DEF TypeOK
<1>7. CASE c = CtrOf(b)
  <2>1. b \in S
    BY <1>1, <1>7 DEF Folded
  <2>2. \A x \in S : quic_pkt_count[x] \in Int /\ quic_pkt_count'[x] \in Int
    BY <1>2, <1>6, FoldedFinite
  <2>3. \A x \in S \ {b} : quic_pkt_count'[x] = quic_pkt_count[x]
    BY <1>6, FoldedFinite
  <2>4. SumFunctionOnSet(quic_pkt_count', S)
          = SumFunctionOnSet(quic_pkt_count, S) + quic_pkt_count'[b] - quic_pkt_count[b]
    <3>1. IsFiniteSet(S)
      BY FoldedFinite
    <3> HIDE DEF S, b
    <3>2. QED
      BY <2>1, <2>2, <2>3, <3>1, SumUpdate
  <2>5. quic_pkt_count'[b] = quic_pkt_count[b] + 1
    BY <1>1, <1>4 DEF TypeOK
  <2>6. SumFunctionOnSet(quic_pkt_count, S) \in Nat
    BY CellsNat DEF TypeOK
  <2>7. QED
    BY <1>1, <1>2, <1>5, <1>7, <2>4, <2>5, <2>6
<1>8. CASE c # CtrOf(b)
  <2>1. \A x \in S : quic_pkt_count[x] \in Int /\ quic_pkt_count[x] = quic_pkt_count'[x]
    <3>1. b \notin S
      BY <1>8 DEF Folded
    <3>2. QED
      BY <1>2, <1>6, <3>1, FoldedFinite
  <2>2. SumFunctionOnSet(quic_pkt_count, S) = SumFunctionOnSet(quic_pkt_count', S)
    <3>1. IsFiniteSet(S)
      BY FoldedFinite
    <3> HIDE DEF S
    <3>2. QED
      BY <2>1, <3>1, SumSame
  <2>3. SumFunctionOnSet(quic_pkt_count, S) \in Nat
    BY CellsNat DEF TypeOK
  <2>4. QED
    BY <1>5, <1>8, <2>2, <2>3
<1>9. QED
  BY <1>7, <1>8

\* A step of QuicReset is a step of the switch.
LEMMA ResetStepIsStep == [ResetNext]_resetVars => [Next]_vars
BY DEF ResetNext, resetVars, Next, Reset

WindowType == window \in [Ctrs -> Nat]

\* The window's counts survive a step.
LEMMA WindowStep ==
  ASSUME TypeOK, WindowType, [ResetNext]_resetVars
  PROVE  WindowType'
<1>1. CASE \E p \in Packets : Process(p) /\ window' = InWindow(p)
  <2> PICK p \in Packets : window' = InWindow(p)
    BY <1>1
  <2>1. CASE Quic(p)
    <3>1. CtrOf(flow_id(p)) \in Ctrs
      BY <2>1, BucketExists
    <3>2. QED
      BY <3>1 DEF InWindow, WindowType
  <2>2. CASE ~Quic(p)
    BY <2>2 DEF InWindow, WindowType
  <2>3. QED
    BY <2>1, <2>2
<1>2. CASE window' = [c \in Ctrs |-> 0] \/ UNCHANGED window
  BY <1>2 DEF WindowType
<1>3. QED
  BY <1>1, <1>2 DEF ResetNext, resetVars

\* Slots, register and window keep in step through every packet and script step.
LEMMA CountersStep ==
  ASSUME TypeOK, TypeOK', WindowType, WindowType', CellsBounded, CountersAgree,
         [ResetNext]_resetVars
  PROVE  CountersAgree'
<1> SUFFICES ASSUME npackets' < CntMod, NEW c \in Ctrs
             PROVE  LET s == SumFunctionOnSet(quic_pkt_count', Folded(c))
                    IN IF shell' = "clr_pkt" THEN s = window'[c] /\ s <= quic_flow_pkts'[c]
                                             ELSE s = quic_flow_pkts'[c] + window'[c]
  BY DEF CountersAgree
<1> DEFINE sum == SumFunctionOnSet(quic_pkt_count, Folded(c))
           sump == SumFunctionOnSet(quic_pkt_count', Folded(c))
           w == window[c]
           wp == window'[c]
           f == quic_flow_pkts[c]
           fp == quic_flow_pkts'[c]
<1>1. sum \in Nat /\ sump \in Nat /\ f \in Nat /\ fp \in Nat /\ w \in Nat /\ wp \in Nat
  BY CellsNat DEF TypeOK, WindowType
<1>2. ASSUME npackets < CntMod
      PROVE  IF shell = "clr_pkt" THEN sum = w /\ sum <= f ELSE sum = f + w
  BY <1>2 DEF CountersAgree
<1> SUFFICES IF shell' = "clr_pkt" THEN sump = wp /\ sump <= fp ELSE sump = fp + wp
  OBVIOUS
<1> HIDE DEF sum, sump, w, wp, f, fp
<1>3. CASE \E p \in Packets : Process(p) /\ window' = InWindow(p)
  <2> PICK p \in Packets : Process(p) /\ window' = InWindow(p)
    BY <1>3
  <2>1. npackets < CntMod /\ shell' = shell
    BY SizesAssumption DEF Process, TypeOK
  <2>2. CASE Quic(p)
    <3> DEFINE d == IF c = CtrOf(flow_id(p)) THEN 1 ELSE 0
    <3>1. sump = sum + d /\ fp = f + d
      BY <2>2, CountStep DEF sum, sump, f, fp
    <3>2. wp = IF shell = "clr_pkt" THEN w + d ELSE w
      <4>1. CtrOf(flow_id(p)) \in Ctrs
        BY <2>2, BucketExists
      <4>2. QED
        BY <2>2, <4>1 DEF InWindow, WindowType, w, wp
    <3>3. d \in Nat
      OBVIOUS
    <3> HIDE DEF d
    <3>4. QED
      BY <1>1, <1>2, <2>1, <3>1, <3>2, <3>3
  <2>3. CASE ~Quic(p)
    <3>1. quic_pkt_count' = quic_pkt_count /\ fp = f /\ wp = w
      BY <2>3 DEF Process, InWindow, f, fp, w, wp
    <3>2. sump = sum
      BY <3>1 DEF sum, sump
    <3>3. QED
      BY <1>2, <2>1, <3>1, <3>2
  <2>4. QED
    BY <2>2, <2>3
<1>4. CASE ResetPktCount /\ window' = [x \in Ctrs |-> 0]
  <2>1. sump = 0 /\ wp = 0 /\ shell' = "clr_pkt"
    BY <1>4, ClearedSum DEF ResetPktCount, Begin, sump, wp
  <2>2. QED
    BY <1>1, <2>1
<1>5. CASE ResetFlowBytes /\ UNCHANGED window
  <2>1. fp = 0 /\ shell = "clr_pkt" /\ shell' = "clr_bytes" /\ npackets' = npackets
    BY <1>5 DEF ResetFlowBytes, Continue, fp
  <2>2. wp = w /\ quic_pkt_count' = quic_pkt_count
    BY <1>5 DEF ResetFlowBytes, w, wp
  <2>3. sump = sum
    BY <2>2 DEF sum, sump
  <2>4. QED
    BY <1>1, <1>2, <2>1, <2>2, <2>3
<1>6. CASE /\ UNCHANGED <<quic_pkt_count, quic_flow_pkts, npackets, window>>
           /\ shell = "clr_pkt" <=> shell' = "clr_pkt"
  <2>1. sump = sum /\ wp = w /\ fp = f
    BY <1>6 DEF sum, sump, w, wp, f, fp
  <2>2. QED
    BY <1>2, <1>6, <2>1
<1>7. QED
  <2>1. \/ \E p \in Packets : Process(p) /\ window' = InWindow(p)
        \/ ResetPktCount /\ window' = [x \in Ctrs |-> 0]
        \/ ResetFlowBytes /\ UNCHANGED window
        \/ /\ UNCHANGED <<quic_pkt_count, quic_flow_pkts, npackets, window>>
           /\ shell = "clr_pkt" <=> shell' = "clr_pkt"
    BY DEF ResetNext, Setup, Deliver, SetupClear, SetupForward, AddForward,
           SetupArm, SetupDeregister, SetupRegister, SetArm, ResetLens,
           Begin, Continue, resetVars, vars, regVars
  <2>2. QED
    BY <1>3, <1>4, <1>5, <1>6, <2>1

\* A slot and the buckets folded onto it agree to the packet, save for exactly the
\* packets that fell between the first two clears of the last reset_counts.py, for
\* every size of the register and of the counter.
THEOREM CountersInvariant == ResetSpec => []CountersAgree
<1>1. ResetInit => Init /\ WindowType /\ CellsBounded /\ CountersAgree
  <2> SUFFICES ASSUME ResetInit PROVE WindowType /\ CellsBounded /\ CountersAgree
    BY DEF ResetInit
  <2>1. CellsBounded /\ WindowType
    BY DEF ResetInit, Init, CellsBounded, WindowType
  <2>2. \A c \in Ctrs : /\ SumFunctionOnSet(quic_pkt_count, Folded(c)) = 0
                        /\ quic_flow_pkts[c] = 0 /\ window[c] = 0
    BY ClearedSum DEF ResetInit, Init
  <2>3. shell # "clr_pkt"
    BY DEF ResetInit, Init
  <2>4. QED
    BY <2>1, <2>2, <2>3 DEF CountersAgree
<1>2. ResetSpec => []TypeOK
  BY <1>1, ResetStepIsStep, TypeCorrect, PTL DEF ResetSpec, Spec
<1>3. TypeOK /\ CellsBounded /\ [ResetNext]_resetVars => CellsBounded'
  BY CellsStep, ResetStepIsStep
<1>4. TypeOK /\ WindowType /\ [ResetNext]_resetVars => WindowType'
  BY WindowStep
<1>5. TypeOK /\ TypeOK' /\ WindowType /\ WindowType' /\ CellsBounded /\ CountersAgree
        /\ [ResetNext]_resetVars => CountersAgree'
  BY CountersStep
<1>6. QED
  BY <1>1, <1>2, <1>3, <1>4, <1>5, PTL DEF ResetSpec

-----------------------------------------------------------------------------
(* Forwarding *)

\* The port has an entry to the given egress port.
Wire(port, egress) == port \in DOMAIN forwarding /\ forwarding[port] = egress
Wired == Wire(136, 128) /\ Wire(128, 136)

\* The strengthening Transparent needs: setup.py's progress says which entries
\* are there, and the no-op callback is never there without them except while
\* setup.py rewires again.
WiredInv ==
  /\ shell = "fwd_136" => Wire(136, 128)
  /\ shell \in {"fwd_128", "arm_set", "cb_gone"} => Wired
  /\ learn_client = "noop" /\ shell \notin {"fwd_clear", "fwd_136"} => Wired

\* A new entry is there, and the other port's entry is untouched.
LEMMA AddForwardWires ==
  ASSUME NEW from, NEW to, NEW port, NEW egress, AddForward(from, to, port, egress)
  PROVE  /\ Wire(port, egress)'
         /\ \A q, e : q # port /\ Wire(q, e) => Wire(q, e)'
BY DEF AddForward, Wire

\* The wiring survives a step.
LEMMA WiredStep ==
  ASSUME WiredInv, [Next]_vars
  PROVE  WiredInv'
<1>1. CASE SetupClear
  BY <1>1 DEF SetupClear, Begin, WiredInv
<1>2. CASE SetupForward
  <2>1. CASE AddForward("fwd_clear", "fwd_136", 136, 128)
    <3>1. Wire(136, 128)'
      BY <2>1, AddForwardWires
    <3>2. shell' = "fwd_136"
      BY <2>1 DEF AddForward, Continue
    <3>3. QED
      BY <3>1, <3>2 DEF WiredInv
  <2>2. CASE AddForward("fwd_136", "fwd_128", 128, 136)
    <3>1. shell = "fwd_136" /\ shell' = "fwd_128"
      BY <2>2 DEF AddForward, Continue
    <3>2. Wire(136, 128)
      BY <3>1 DEF WiredInv
    <3>3. Wire(128, 136)' /\ Wire(136, 128)'
      BY <2>2, <3>2, AddForwardWires
    <3>4. QED
      BY <3>1, <3>3 DEF WiredInv, Wired
  <2>3. QED
    BY <1>2, <2>1, <2>2 DEF SetupForward
<1>3. CASE SetupArm
  BY <1>3 DEF SetupArm, Continue, dgstVars, WiredInv, Wired, Wire
<1>4. CASE SetupDeregister
  BY <1>4 DEF SetupDeregister, Continue, tblVars, WiredInv, Wired, Wire
<1>5. CASE SetupRegister
  BY <1>5 DEF SetupRegister, Continue, tblVars, WiredInv, Wired, Wire
<1>6. CASE /\ UNCHANGED <<forwarding, learn_client>>
           /\ \/ shell' = shell
              \/ /\ shell \in {"free", "clr_pkt", "clr_bytes"}
                 /\ shell' \in {"free", "clr_pkt", "clr_bytes"}
  BY <1>6 DEF WiredInv, Wired, Wire
<1>7. QED
  <2>1. ASSUME (\E p \in Packets : Process(p)) \/ Deliver
               \/ (\E len \in Arms : SetArm(len)) \/ UNCHANGED vars
        PROVE  UNCHANGED <<forwarding, learn_client, shell>>
    BY <2>1 DEF Process, Deliver, SetArm, vars, regVars, tblVars, dgstVars
  <2>2. ASSUME Reset
        PROVE  /\ UNCHANGED <<forwarding, learn_client>>
               /\ shell \in {"free", "clr_pkt", "clr_bytes"}
               /\ shell' \in {"free", "clr_pkt", "clr_bytes"}
    BY <2>2 DEF Reset, ResetPktCount, ResetFlowBytes, ResetLens, Begin, Continue,
                tblVars, dgstVars
  <2>3. QED
    BY <1>1, <1>2, <1>3, <1>4, <1>5, <1>6, <2>1, <2>2 DEF Next, Setup

\* Once setup.py's callback is registered, every packet leaves by the port
\* opposite the one it came in on, unless setup.py is rewiring again.
THEOREM TransparentInvariant == Spec => []Transparent
<1>1. Init => WiredInv
  BY DEF Init, WiredInv
<1>2. WiredInv /\ [Next]_vars => WiredInv'
  BY WiredStep
<1>3. WiredInv => Transparent
  <2> SUFFICES ASSUME Wired, NEW p \in Packets
               PROVE  Egress(p) = Peer(p.port)
    BY DEF WiredInv, Transparent
  <2>1. p.port \in Ports
    BY PacketsAssumption DEF IsHeader
  <2>2. Peer(128) = 136 /\ Peer(136) = 128
    BY DEF Peer, Ports
  <2>3. QED
    BY <2>1, <2>2 DEF Ports, Wired, Wire, Egress
<1>4. QED
  BY <1>1, <1>2, <1>3, PTL DEF Spec

=============================================================================
