-------------------------- MODULE ByteParityProofs --------------------------
(***************************************************************************)
(* The -single-cid promise and the byte experiment that rests on it, for   *)
(* every number of flows, every random source, hash function and packet    *)
(* size, and any number of executions of the two scripts.                  *)
(***************************************************************************)
EXTENDS ByteParity, OperatorProofs

-----------------------------------------------------------------------------
(* The generator *)

\* The bucket of an ID is a bucket.
LEMMA BucketRange ==
  ASSUME NEW id \in Ids
  PROVE  p4Bucket(id) \in 0 .. NBuckets - 1
<1>1. CRC32(Padded(id)) \in Nat /\ NBuckets \in Nat \ {0}
  BY GenAssumption
<1>2. QED
  BY <1>1, ModRange DEF p4Bucket

\* A call that returns keeps the invariant, if what it leaves as the target is
\* the bucket of the ID it returns.
LEMMA ReturnKeepsInv ==
  ASSUME GenInv, NEW f \in Flows, NEW id \in Ids, Return(f, id),
         targetBucket' \in [Flows -> 0 .. NBuckets - 1],
         hasTarget' \in [Flows -> BOOLEAN],
         \A g \in Flows \ {f} : /\ targetBucket'[g] = targetBucket[g]
                                /\ hasTarget'[g] = hasTarget[g],
         singleBucket => /\ hasTarget'[f]
                         /\ targetBucket'[f] = p4Bucket(id)
                         /\ hasTarget[f] => targetBucket'[f] = targetBucket[f]
  PROVE  GenInv'
<1>1. /\ call' \in [Flows -> {"none", "first", "search", "any"}]
      /\ call'[f] = "none"
      /\ \A g \in Flows \ {f} : call'[g] = call[g]
  BY DEF GenInv, Return
<1>2. /\ issued' \in [Flows -> SUBSET Ids]
      /\ issued'[f] = issued[f] \cup {id}
      /\ \A g \in Flows \ {f} : issued'[g] = issued[g]
  BY DEF GenInv, Return
<1>3. /\ first' \in [Flows -> {<<>>} \cup {<<i>> : i \in Ids}]
      /\ first'[f] = IF first[f] = <<>> THEN <<id>> ELSE first[f]
      /\ \A g \in Flows \ {f} : first'[g] = first[g]
  BY DEF GenInv, Return
<1>4. UNCHANGED <<singleBucket, target, printed>>
  BY DEF Return
<1>5. ASSUME NEW g \in Flows
      PROVE  /\ printed'[g] # <<>> => printed'[g] = first'[g]
             /\ call'[g] = "any" => ~singleBucket'
             /\ call'[g] = "first" => ~hasTarget'[g]
             /\ call'[g] = "search" => hasTarget'[g] /\ target'[g] = targetBucket'[g]
             /\ singleBucket' =>
                   /\ hasTarget'[g] <=> first'[g] # <<>>
                   /\ ~hasTarget'[g] => issued'[g] = {}
                   /\ \A i \in issued'[g] : p4Bucket(i) = targetBucket'[g]
                   /\ first'[g] # <<>> => p4Bucket(first'[g][1]) = targetBucket'[g]
  <2>1. CASE g # f
    BY <1>1, <1>2, <1>3, <1>4, <2>1 DEF GenInv
  <2>2. CASE g = f
    <3>1. <<id>> # <<>> /\ <<id>>[1] = id
      OBVIOUS
    <3>2. printed[f] # <<>> => printed[f] = first[f] /\ first'[f] = first[f]
      BY <1>3 DEF GenInv
    <3>3. first'[f] # <<>>
      BY <1>3, <3>1
    <3>4. singleBucket /\ hasTarget[f] =>
             /\ \A i \in issued'[f] : p4Bucket(i) = targetBucket'[f]
             /\ p4Bucket(first'[f][1]) = targetBucket'[f]
      BY <1>2, <1>3, <3>1 DEF GenInv
    <3>5. singleBucket /\ ~hasTarget[f] =>
             /\ \A i \in issued'[f] : p4Bucket(i) = targetBucket'[f]
             /\ p4Bucket(first'[f][1]) = targetBucket'[f]
      BY <1>2, <1>3, <3>1 DEF GenInv
    <3>6. QED
      BY <1>1, <1>4, <2>2, <3>2, <3>3, <3>4, <3>5
  <2>3. QED
    BY <2>1, <2>2
<1>6. target' \in [Flows -> 0 .. NBuckets - 1] /\ printed' = printed
  BY <1>4 DEF GenInv
<1>7. QED
  BY <1>1, <1>2, <1>3, <1>5, <1>6 DEF GenInv

\* Every step of a call, and the print, keep the generators' invariant.
LEMMA GenStep ==
  ASSUME GenInv, [GenNext]_genVars
  PROVE  GenInv'
<1>1. ASSUME NEW f \in Flows, Enter(f)
      PROVE  GenInv'
  BY <1>1 DEF GenInv, Enter
<1>2. ASSUME NEW f \in Flows, NEW id \in Ids, FirstId(f, id)
      PROVE  GenInv'
  <2>1. Return(f, id) /\ call[f] = "first"
    BY <1>2 DEF FirstId
  <2>2. /\ targetBucket' \in [Flows -> 0 .. NBuckets - 1]
        /\ targetBucket'[f] = p4Bucket(id)
        /\ \A g \in Flows \ {f} : targetBucket'[g] = targetBucket[g]
    BY <1>2, BucketRange DEF FirstId, GenInv
  <2>3. /\ hasTarget' \in [Flows -> BOOLEAN]
        /\ hasTarget'[f]
        /\ \A g \in Flows \ {f} : hasTarget'[g] = hasTarget[g]
    BY <1>2 DEF FirstId, GenInv
  <2>4. ~hasTarget[f]
    BY <2>1 DEF GenInv
  <2>5. QED
    BY <2>1, <2>2, <2>3, <2>4, ReturnKeepsInv
<1>3. ASSUME NEW f \in Flows, NEW id \in Ids, SearchId(f, id)
      PROVE  GenInv'
  <2>1. /\ Return(f, id) /\ call[f] = "search"
        /\ p4Bucket(id) = target[f]
        /\ hasTarget' = hasTarget /\ targetBucket' = targetBucket
    BY <1>3 DEF SearchId
  <2>2. hasTarget[f] /\ target[f] = targetBucket[f]
    BY <2>1 DEF GenInv
  <2>3. /\ targetBucket' \in [Flows -> 0 .. NBuckets - 1]
        /\ hasTarget' \in [Flows -> BOOLEAN]
    BY <2>1 DEF GenInv
  <2>4. QED
    BY <2>1, <2>2, <2>3, ReturnKeepsInv
<1>4. ASSUME NEW f \in Flows, NEW id \in Ids, AnyId(f, id)
      PROVE  GenInv'
  <2>1. /\ Return(f, id) /\ call[f] = "any"
        /\ hasTarget' = hasTarget /\ targetBucket' = targetBucket
    BY <1>4 DEF AnyId
  <2>2. ~singleBucket
    BY <2>1 DEF GenInv
  <2>3. /\ targetBucket' \in [Flows -> 0 .. NBuckets - 1]
        /\ hasTarget' \in [Flows -> BOOLEAN]
    BY <2>1 DEF GenInv
  <2>4. QED
    BY <2>1, <2>2, <2>3, ReturnKeepsInv
<1>5. ASSUME NEW f \in Flows, RandError(f)
      PROVE  GenInv'
  BY <1>5 DEF GenInv, RandError
<1>6. ASSUME NEW f \in Flows, Connected(f)
      PROVE  GenInv'
  BY <1>6 DEF GenInv, Connected
<1>7. CASE UNCHANGED genVars
  BY <1>7 DEF GenInv, genVars
<1>8. QED
  BY <1>1, <1>2, <1>3, <1>4, <1>5, <1>6, <1>7 DEF GenNext, GenCall

\* The target is settled before anything is searched for, and every issued ID
\* has it: GenerateConnectionID looks at the target in one critical section
\* and sets it in another, and no ID slips in between.
THEOREM GenInvariant == GenSpec => []GenInv
<1>1. GenInit => GenInv
  BY GenAssumption DEF GenInit, GenInv
<1>2. GenInv /\ [GenNext]_genVars => GenInv'
  BY GenStep
<1>3. QED
  BY <1>1, <1>2, PTL DEF GenSpec

\* What the invariant of the generators promises the switch.
LEMMA PrintedBucket ==
  ASSUME GenInv
  PROVE  OnePrintedBucket
<1> SUFFICES ASSUME singleBucket,
                    NEW f \in Flows, printed[f] # <<>>,
                    NEW id \in issued[f], NEW d \in Fields, Shows(d, id)
             PROVE  MeasuredBucket(d, id) = p4Bucket(printed[f][1])
  BY DEF OnePrintedBucket
<1>1. id \in Ids
  BY DEF GenInv
<1>2. id \in Seq(Byte) /\ Len(id) <= DcidBytes /\ d \in Dcid
  BY <1>1, GenAssumption
<1>3. MeasuredBucket(d, id) = p4Bucket(id)
  BY <1>2, MaskKeepsCid DEF MeasuredBucket, p4Bucket
<1>4. printed[f] = first[f]
  BY DEF GenInv
<1>5. p4Bucket(id) = targetBucket[f] /\ p4Bucket(first[f][1]) = targetBucket[f]
  BY <1>4 DEF GenInv
<1>6. QED
  BY <1>3, <1>4, <1>5

\* The length-aware switch counts every packet to an ID of a -single-cid
\* connection in the bucket the client printed.
THEOREM OneBucketPerConnection == GenSpec => []OnePrintedBucket
<1>1. GenInv => OnePrintedBucket
  BY PrintedBucket
<1>2. QED
  BY <1>1, GenInvariant, PTL
-----------------------------------------------------------------------------
(* The inductive invariant of the experiment *)

Steps == {"byhand", "idle", "reset", "client", "dump", "analyze", "append"}
Cells == 0 .. Slots - 1
Line == [bucket : {<<>>} \cup {<<b>> : b \in 0 .. NBuckets - 1},
         mb : {<<>>} \cup {<<m>> : m \in Nat}]

\* No script without -single-cid; between two clients no generator has an ID.
ByteTyped ==
  /\ step \in Steps /\ exec \in Nat
  /\ step # "byhand" => singleBucket
  /\ step \notin {"byhand", "idle"} => script \in Scripts
  /\ step \notin {"byhand", "client"} => \A f \in Flows : printed[f] = <<>>
  /\ quic_flow_bytes \in [Cells -> Nat]
  /\ recv \in [Flows -> Nat]
  /\ log \in [Flows -> Line]
  /\ diff \in [Scripts -> [exec : Nat, slots : SUBSET Nat]]

\* What a flow's lines say: the bucket of its first ID, and within half a
\* quantum what it received.  It received nothing before the first line.
LineInv(f) ==
  /\ step = "client" =>
       log[f].bucket = IF printed[f] = <<>> THEN <<>> ELSE <<p4Bucket(printed[f][1])>>
  /\ log[f].bucket = <<>> => recv[f] = 0 /\ log[f].mb = <<>>
  /\ log[f].mb # <<>> => /\ 2 * log[f].mb[1] <= 2 * recv[f] + Quantum
                         /\ 2 * recv[f] <= 2 * log[f].mb[1] + Quantum

\* A cell holds a header and all received bytes of every flow printed for it.
Need(r) == [f \in Flows |-> Header + r[f]]
InCell(l, s) == {f \in Flows : l[f].bucket # <<>> /\ l[f].bucket[1] % Slots = s}
CellInv(r, l, q) == \A s \in Cells : SumFunctionOnSet(Need(r), InCell(l, s)) <= q[s]

\* The files: the CSV of an execution is not there before its dump; some flow
\* has delivered, a CSV of this execution is the counter, and the diff, if
\* anything matched, is of this execution.
FileInv ==
  /\ fetched \in Nat /\ fetched <= exec /\ DOMAIN switch \in SUBSET Cells
  /\ step \in {"reset", "client", "dump"} => fetched < exec
  /\ step \in {"dump", "analyze", "append"} => \E f \in Flows : log[f].mb # <<>>
  /\ step \in {"analyze", "append"} /\ fetched = exec =>
       switch = [s \in {t \in Cells : quic_flow_bytes[t] > 0} |-> quic_flow_bytes[s]]
  /\ step = "append" /\ matched # {} => diff[script] = [exec |-> exec, slots |-> matched]

ByteInv == /\ GenInv /\ ByteTyped /\ (\A f \in Flows : LineInv(f))
           /\ CellInv(recv, log, quic_flow_bytes) /\ FileInv

-----------------------------------------------------------------------------
(* Cells *)

LEMMA Sizes ==
  /\ Slots \in Nat \ {0} /\ Quantum \in Nat \ {0} /\ Payload \in Nat \ {0}
  /\ Header \in Nat \ {0} /\ NBuckets \in Nat \ {0} /\ IsFiniteSet(Flows)
BY ByteAssumption, GenAssumption

\* The length-aware switch counts a packet in the bucket of the ID it shows.
LEMMA Measured ==
  ASSUME NEW id \in Ids, NEW d \in Fields, Shows(d, id)
  PROVE  /\ MeasuredBucket(d, id) = p4Bucket(id)
         /\ p4Bucket(id) % Slots \in Cells
<1>1. id \in Seq(Byte) /\ Len(id) <= DcidBytes /\ d \in Dcid
  BY GenAssumption
<1>2. p4Bucket(id) \in Nat
  BY BucketRange, GenAssumption
<1>3. QED
  BY <1>1, <1>2, Sizes, MaskKeepsCid, ModRange DEF MeasuredBucket, p4Bucket, Cells

\* The flows of a cell, and what it must hold for them.
LEMMA CellFacts ==
  ASSUME NEW r \in [Flows -> Nat], NEW l, NEW s
  PROVE  /\ InCell(l, s) \in SUBSET Flows /\ IsFiniteSet(InCell(l, s))
         /\ \A f \in Flows : Need(r)[f] = Header + r[f] /\ Need(r)[f] \in Nat
         /\ SumFunctionOnSet(Need(r), InCell(l, s)) \in Nat
<1>1. InCell(l, s) \in SUBSET Flows /\ IsFiniteSet(InCell(l, s))
  BY Sizes, FS_Subset DEF InCell
<1>2. \A f \in Flows : Need(r)[f] = Header + r[f] /\ Need(r)[f] \in Nat
  BY Sizes DEF Need
<1>3. \A f \in InCell(l, s) : Need(r)[f] \in Nat
  BY <1>1, <1>2
<1>4. QED
  BY <1>1, <1>2, <1>3, SumNat

\* Bytes that belong to no flow only add to a cell.
LEMMA CellGrows ==
  ASSUME NEW r \in [Flows -> Nat], NEW l, NEW q \in [Cells -> Nat], CellInv(r, l, q),
         NEW s \in Cells, NEW n \in Nat
  PROVE  CellInv(r, l, [q EXCEPT ![s] = q[s] + n])
<1> SUFFICES ASSUME NEW t \in Cells
             PROVE  SumFunctionOnSet(Need(r), InCell(l, t)) <= [q EXCEPT ![s] = q[s] + n][t]
  BY DEF CellInv
<1>1. SumFunctionOnSet(Need(r), InCell(l, t)) \in Nat
  BY CellFacts
<1>2. SumFunctionOnSet(Need(r), InCell(l, t)) <= q[t]
  BY DEF CellInv
<1>3. q[t] \in Nat /\ [q EXCEPT ![s] = q[s] + n][t] = IF t = s THEN q[t] + n ELSE q[t]
  OBVIOUS
<1>4. QED
  BY <1>1, <1>2, <1>3

\* A flow's first packet makes room for its header.
LEMMA CellConnects ==
  ASSUME NEW r \in [Flows -> Nat], NEW l \in [Flows -> Line], NEW q \in [Cells -> Nat],
         CellInv(r, l, q), NEW f \in Flows, l[f].bucket = <<>>, r[f] = 0,
         NEW m \in [Flows -> Line], NEW b \in 0 .. NBuckets - 1, m[f].bucket = <<b>>,
         \A g \in Flows \ {f} : m[g] = l[g], b % Slots \in Cells
  PROVE  CellInv(r, m, [q EXCEPT ![b % Slots] = q[b % Slots] + Header])
<1> DEFINE s == b % Slots
           p == [q EXCEPT ![s] = q[s] + Header]
<1>0. <<b>> # <<>> /\ <<b>>[1] = b
  OBVIOUS
<1> SUFFICES ASSUME NEW t \in Cells
             PROVE  SumFunctionOnSet(Need(r), InCell(m, t)) <= p[t]
  BY DEF CellInv
<1>1. SumFunctionOnSet(Need(r), InCell(l, t)) \in Nat
  BY CellFacts
<1>2. SumFunctionOnSet(Need(r), InCell(l, t)) <= q[t] /\ q[t] \in Nat
  BY DEF CellInv
<1>3. CASE t # s
  <2>1. InCell(m, t) = InCell(l, t)
    BY <1>0, <1>3 DEF InCell
  <2>2. p[t] = q[t]
    BY <1>3
  <2>3. QED
    BY <1>2, <2>1, <2>2
<1>4. CASE t = s
  <2> DEFINE S == InCell(l, t)
  <2>1. InCell(m, t) = S \cup {f} /\ f \notin S
    BY <1>0, <1>4 DEF InCell
  <2>2. IsFiniteSet(S) /\ (\A g \in S \cup {f} : Need(r)[g] \in Int) /\ Need(r)[f] = Header
    <3>1. IsFiniteSet(S) /\ S \in SUBSET Flows
      BY CellFacts
    <3>2. \A g \in Flows : Need(r)[g] = Header + r[g] /\ Need(r)[g] \in Nat
      BY CellFacts
    <3>3. Need(r)[f] = Header
      BY <3>2, Sizes
    <3> HIDE DEF S
    <3>4. QED
      BY <3>1, <3>2, <3>3
  <2>3. p[t] = q[t] + Header
    BY <1>4
  <2> HIDE DEF S
  <2>4. SumFunctionOnSet(Need(r), S \cup {f}) = SumFunctionOnSet(Need(r), S) + Need(r)[f]
    BY <2>1, <2>2, SumInsert
  <2> HIDE DEF p
  <2>5. SumFunctionOnSet(Need(r), InCell(m, t)) = SumFunctionOnSet(Need(r), S) + Header
    BY <2>1, <2>2, <2>4
  <2>6. SumFunctionOnSet(Need(r), S) \in Nat /\ SumFunctionOnSet(Need(r), S) <= q[t]
    BY <1>1, <1>2 DEF S
  <2>7. QED
    BY <1>2, <2>3, <2>5, <2>6, Sizes
<1>5. QED
  BY <1>3, <1>4

\* A data packet of a flow counts in the cell of its printed bucket.
LEMMA CellPush ==
  ASSUME NEW r \in [Flows -> Nat], NEW l, NEW q \in [Cells -> Nat], CellInv(r, l, q),
         NEW f \in Flows, l[f].bucket # <<>>, NEW s \in Cells, l[f].bucket[1] % Slots = s
  PROVE  CellInv([r EXCEPT ![f] = r[f] + Payload], l,
                 [q EXCEPT ![s] = q[s] + (Header + Payload)])
<1> DEFINE v == [r EXCEPT ![f] = r[f] + Payload]
           p == [q EXCEPT ![s] = q[s] + (Header + Payload)]
<1>0. v \in [Flows -> Nat]
  BY Sizes
<1> SUFFICES ASSUME NEW t \in Cells
             PROVE  SumFunctionOnSet(Need(v), InCell(l, t)) <= p[t]
  BY DEF CellInv
<1> DEFINE S == InCell(l, t)
<1>1. /\ SumFunctionOnSet(Need(r), S) \in Nat /\ IsFiniteSet(S) /\ S \subseteq Flows
      /\ \A g \in Flows : Need(r)[g] = Header + r[g] /\ Need(r)[g] \in Nat
  BY CellFacts
<1>2. SumFunctionOnSet(Need(r), S) <= q[t] /\ q[t] \in Nat
  BY DEF CellInv
<1>3. \A g \in Flows : Need(v)[g] = Header + v[g] /\ Need(v)[g] \in Nat
  <2> HIDE DEF v
  <2>1. QED
    BY <1>0, CellFacts
<1>4. \A g \in Flows \ {f} : Need(v)[g] = Need(r)[g]
  <2>1. \A g \in Flows \ {f} : v[g] = r[g]
    OBVIOUS
  <2> HIDE DEF v
  <2>2. QED
    BY <1>1, <1>3, <2>1
<1>5. CASE t # s
  <2>1. f \notin S
    BY <1>5 DEF InCell
  <2>2. \A g \in S : Need(v)[g] \in Int /\ Need(v)[g] = Need(r)[g]
    <3> HIDE DEF S, v
    <3>1. QED
      BY <1>1, <1>3, <1>4, <2>1
  <2>3. p[t] = q[t]
    BY <1>5
  <2> HIDE DEF S, v, p
  <2>4. SumFunctionOnSet(Need(v), S) = SumFunctionOnSet(Need(r), S)
    BY <1>1, <2>2, SumSame
  <2>5. QED
    BY <1>2, <2>3, <2>4 DEF S
<1>6. CASE t = s
  <2>1. f \in S
    BY <1>6 DEF InCell
  <2>2. Need(v)[f] = Need(r)[f] + Payload
    <3>1. v[f] = r[f] + Payload /\ r[f] \in Nat
      OBVIOUS
    <3> HIDE DEF v
    <3>2. Need(v)[f] = Header + v[f] /\ Need(r)[f] = Header + r[f]
      BY <1>1, <1>3
    <3>3. QED
      BY <3>1, <3>2, Sizes
  <2>3. p[t] = q[t] + (Header + Payload)
    BY <1>6
  <2>4. /\ \A g \in S : Need(r)[g] \in Int /\ Need(v)[g] \in Int
        /\ \A g \in S \ {f} : Need(v)[g] = Need(r)[g]
    <3> HIDE DEF S, v
    <3>1. QED
      BY <1>1, <1>3, <1>4
  <2> HIDE DEF S, v, p
  <2>5. SumFunctionOnSet(Need(v), S) = SumFunctionOnSet(Need(r), S) + Need(v)[f] - Need(r)[f]
    BY <1>1, <2>1, <2>4, SumUpdate
  <2>6. Need(r)[f] \in Nat
    BY <1>1
  <2>7. SumFunctionOnSet(Need(v), S) = SumFunctionOnSet(Need(r), S) + Payload
    BY <1>1, <2>2, <2>5, <2>6, Sizes
  <2>8. QED
    BY <1>1, <1>2, <2>3, <2>7, Sizes DEF S
<1>7. QED
  BY <1>5, <1>6

-----------------------------------------------------------------------------
(* Steps *)

\* What a step of a generator leaves alone.
LEMMA CallFrame ==
  ASSUME NEW f \in Flows, GenCall(f)
  PROVE  UNCHANGED <<singleBucket, printed>>
BY DEF GenCall, Enter, FirstId, SearchId, AnyId, RandError, Return

\* The experiment where a step does not touch it.
Experiment == ByteTyped /\ (\A f \in Flows : LineInv(f))
              /\ CellInv(recv, log, quic_flow_bytes) /\ FileInv

LEMMA ExperimentFrame ==
  ASSUME Experiment, UNCHANGED <<byteVars, singleBucket, printed>>
  PROVE  Experiment'
<1>1. UNCHANGED <<script, step, exec, log, quic_flow_bytes, recv, switch, fetched, diff, singleBucket,
                  printed>>
  BY DEF byteVars, wireVars, fileVars
<1>2. ByteTyped'
  BY <1>1 DEF Experiment, ByteTyped
<1>3. (\A f \in Flows : LineInv(f))'
  BY <1>1 DEF Experiment, LineInv
<1>4. CellInv(recv, log, quic_flow_bytes)'
  BY <1>1 DEF Experiment, CellInv, Need, InCell
<1>5. matched' = matched
  BY <1>1 DEF matched, bucket_bytes, flowsIn, flows, ctr_idx, FoldSlots
<1>6. FileInv'
  BY <1>1, <1>5 DEF Experiment, FileInv
<1>7. QED
  BY <1>2, <1>3, <1>4, <1>6 DEF Experiment

\* A client started by hand prints a bucket.
LEMMA ByHandFrame ==
  ASSUME Experiment, step = "byhand", UNCHANGED <<byteVars, singleBucket>>
  PROVE  Experiment'
<1>1. UNCHANGED <<script, step, exec, log, quic_flow_bytes, recv, switch, fetched, diff, singleBucket>>
  BY DEF byteVars, wireVars, fileVars
<1>2. ByteTyped'
  BY <1>1 DEF Experiment, ByteTyped
<1>3. (\A f \in Flows : LineInv(f))'
  BY <1>1 DEF Experiment, LineInv
<1>4. CellInv(recv, log, quic_flow_bytes)'
  BY <1>1 DEF Experiment, CellInv, Need, InCell
<1>5. FileInv'
  BY <1>1 DEF Experiment, ByteTyped, FileInv
<1>6. QED
  BY <1>2, <1>3, <1>4, <1>5 DEF Experiment

LEMMA ConnectStep ==
  ASSUME GenInv, Experiment, NEW f \in Flows, Connect(f)
  PROVE  Experiment'
<1>1. PICK id \in Ids : first[f] = <<id>> /\ first[f][1] = id
  BY DEF Connect, Connected, GenInv
<1> DEFINE b == p4Bucket(id)
<1>2. /\ step = "client" /\ printed[f] = <<>>
      /\ printed' = [printed EXCEPT ![f] = <<id>>]
      /\ log' = [log EXCEPT ![f] = [log[f] EXCEPT !.bucket = <<b>>]]
      /\ UNCHANGED <<script, step, exec, recv, switch, fetched, diff, singleBucket>>
  BY <1>1 DEF Connect, Connected, fileVars
<1>3. /\ b \in 0 .. NBuckets - 1 /\ b % Slots \in Cells
      /\ quic_flow_bytes' = [quic_flow_bytes EXCEPT ![b % Slots] = quic_flow_bytes[b % Slots] + Header]
  <2>1. PICK d \in Fields : Shows(d, id) /\ Count(MeasuredBucket(d, id) % Slots, Header)
    BY <1>1 DEF Connect
  <2>2. MeasuredBucket(d, id) = b /\ b % Slots \in Cells
    BY <2>1, Measured
  <2>3. QED
    BY <2>1, <2>2, BucketRange DEF Count
<1> HIDE DEF b
<1>4. /\ log[f] \in Line /\ log[f].bucket = <<>> /\ recv[f] = 0 /\ log[f].mb = <<>>
      /\ recv \in [Flows -> Nat] /\ log \in [Flows -> Line] /\ quic_flow_bytes \in [Cells -> Nat]
  BY <1>2 DEF Experiment, ByteTyped, LineInv
<1>5. [log[f] EXCEPT !.bucket = <<b>>] \in Line
  BY <1>3, <1>4 DEF Line
<1>6. /\ log' \in [Flows -> Line] /\ log'[f].bucket = <<b>> /\ log'[f].mb = <<>>
      /\ \A g \in Flows \ {f} : log'[g] = log[g]
  BY <1>2, <1>4, <1>5 DEF Line
<1>7. printed'[f] = <<id>> /\ \A g \in Flows \ {f} : printed'[g] = printed[g]
  BY <1>2 DEF GenInv
<1>8. ByteTyped'
  <2>1. quic_flow_bytes' \in [Cells -> Nat]
    <3>1. quic_flow_bytes[b % Slots] + Header \in Nat
      BY <1>3, <1>4, Sizes
    <3>2. QED
      BY <1>3, <1>4, <3>1
  <2>2. QED
    BY <1>2, <1>6, <2>1 DEF Experiment, ByteTyped
<1>9. ASSUME NEW g \in Flows PROVE LineInv(g)'
  <2>1. CASE g = f
    <3>1. <<id>> # <<>> /\ <<b>> # <<>> /\ <<id>>[1] = id
      OBVIOUS
    <3>2. QED
      BY <1>2, <1>6, <1>7, <2>1, <3>1 DEF LineInv, b
  <2>2. CASE g # f
    <3>1. log'[g] = log[g] /\ printed'[g] = printed[g] /\ recv'[g] = recv[g] /\ step' = step
      BY <1>2, <1>6, <1>7, <2>2
    <3>2. LineInv(g)
      BY DEF Experiment
    <3>3. QED
      BY <3>1, <3>2 DEF LineInv
  <2>3. QED
    BY <2>1, <2>2
<1>10. CellInv(recv, log, quic_flow_bytes)'
  <2>1. CellInv(recv, log, quic_flow_bytes)
    BY DEF Experiment
  <2>2. CellInv(recv, log', [quic_flow_bytes EXCEPT ![b % Slots] = quic_flow_bytes[b % Slots] + Header])
    BY <1>3, <1>4, <1>6, <2>1, CellConnects
  <2>3. CellInv(recv', log', quic_flow_bytes')
    BY <1>2, <1>3, <2>2
  <2>4. QED
    BY <2>3 DEF CellInv, Need, InCell
<1>11. FileInv'
  BY <1>2 DEF Experiment, ByteTyped, FileInv
<1>12. QED
  BY <1>8, <1>9, <1>10, <1>11 DEF Experiment

LEMMA PushStep ==
  ASSUME GenInv, Experiment, NEW f \in Flows, Push(f)
  PROVE  Experiment'
<1>1. PICK id \in issued[f], d \in Fields :
         Shows(d, id) /\ Count(MeasuredBucket(d, id) % Slots, Header + Payload)
  BY DEF Push
<1>2. /\ step = "client" /\ printed[f] # <<>> /\ log[f].mb = <<>>
      /\ recv' = [recv EXCEPT ![f] = recv[f] + Payload]
      /\ UNCHANGED <<script, step, exec, log, switch, fetched, diff, singleBucket, printed>>
  BY DEF Push, genVars, fileVars
<1>3. /\ recv \in [Flows -> Nat] /\ log \in [Flows -> Line] /\ quic_flow_bytes \in [Cells -> Nat]
      /\ singleBucket /\ LineInv(f)
  BY <1>2 DEF Experiment, ByteTyped
<1> DEFINE b == p4Bucket(printed[f][1])
           s == b % Slots
<1>4. MeasuredBucket(d, id) = b
  BY <1>1, <1>2, <1>3, PrintedBucket DEF OnePrintedBucket
<1>5. log[f].bucket = <<b>>
  BY <1>2, <1>3 DEF LineInv
<1>6. <<b>> # <<>> /\ <<b>>[1] = b
  OBVIOUS
<1>7. s \in Cells
  <2>1. id \in Ids
    BY DEF GenInv
  <2>2. QED
    BY <1>1, <1>4, <2>1, Measured
<1>8. quic_flow_bytes' = [quic_flow_bytes EXCEPT ![s] = quic_flow_bytes[s] + (Header + Payload)]
  BY <1>1, <1>4 DEF Count
<1>9. log[f].bucket # <<>> /\ log[f].bucket[1] % Slots = s
  BY <1>5, <1>6
<1> HIDE DEF b, s
<1>10. ByteTyped'
  <2>1. quic_flow_bytes' \in [Cells -> Nat]
    <3>1. quic_flow_bytes[s] + (Header + Payload) \in Nat
      BY <1>3, <1>7, Sizes
    <3>2. QED
      BY <1>3, <1>8, <3>1
  <2>2. recv' \in [Flows -> Nat]
    BY <1>2, <1>3, Sizes
  <2>3. QED
    BY <1>2, <2>1, <2>2 DEF Experiment, ByteTyped
<1>11. ASSUME NEW g \in Flows PROVE LineInv(g)'
  <2>1. LineInv(g)
    BY DEF Experiment
  <2>2. g # f => recv'[g] = recv[g]
    BY <1>2, <1>3
  <2>3. QED
    BY <1>2, <1>9, <2>1, <2>2 DEF LineInv
<1>12. CellInv(recv, log, quic_flow_bytes)'
  <2>1. CellInv(recv, log, quic_flow_bytes)
    BY DEF Experiment
  <2>2. CellInv([recv EXCEPT ![f] = recv[f] + Payload], log,
                [quic_flow_bytes EXCEPT ![s] = quic_flow_bytes[s] + (Header + Payload)])
    BY <1>3, <1>7, <1>9, <2>1, CellPush
  <2>3. CellInv(recv', log', quic_flow_bytes')
    BY <1>2, <1>8, <2>2
  <2>4. QED
    BY <2>3 DEF CellInv, Need, InCell
<1>13. FileInv'
  BY <1>2 DEF Experiment, ByteTyped, FileInv
<1>14. QED
  BY <1>10, <1>11, <1>12, <1>13 DEF Experiment

\* The two decimals are within half a quantum.
LEMMA DecimalsNear ==
  ASSUME NEW n \in Nat, NEW m \in Decimals(n)
  PROVE  m \in Nat /\ 2 * m <= 2 * n + Quantum /\ 2 * n <= 2 * m + Quantum
<1>1. m \in 0 .. n + Quantum /\ 2 * (m - n) <= Quantum /\ 2 * (n - m) <= Quantum
  BY DEF Decimals
<1>2. QED
  BY <1>1, Sizes

LEMMA DeliveredStep ==
  ASSUME Experiment, NEW f \in Flows, Delivered(f)
  PROVE  Experiment'
<1>1. PICK m \in Decimals(recv[f]) : log' = [log EXCEPT ![f] = [log[f] EXCEPT !.mb = <<m>>]]
  BY DEF Delivered
<1>2. /\ step = "client" /\ printed[f] # <<>>
      /\ UNCHANGED <<script, step, exec, quic_flow_bytes, recv, switch, fetched, diff, singleBucket, printed>>
  BY DEF Delivered, genVars, wireVars, fileVars
<1>3. recv[f] \in Nat /\ log \in [Flows -> Line] /\ log[f] \in Line
  BY DEF Experiment, ByteTyped
<1>4. m \in Nat /\ 2 * m <= 2 * recv[f] + Quantum /\ 2 * recv[f] <= 2 * m + Quantum
  BY <1>3, DecimalsNear
<1>5. /\ [log[f] EXCEPT !.mb = <<m>>] \in Line /\ <<m>>[1] = m
      /\ [log[f] EXCEPT !.mb = <<m>>].bucket = log[f].bucket
      /\ [log[f] EXCEPT !.mb = <<m>>].mb = <<m>>
  BY <1>3, <1>4 DEF Line
<1>6. /\ log' \in [Flows -> Line] /\ log'[f].bucket = log[f].bucket /\ log'[f].mb = <<m>>
      /\ \A g \in Flows \ {f} : log'[g] = log[g]
  BY <1>1, <1>3, <1>5
<1>7. ByteTyped'
  BY <1>2, <1>6 DEF Experiment, ByteTyped
<1>8. ASSUME NEW g \in Flows PROVE LineInv(g)'
  <2>1. LineInv(g)
    BY DEF Experiment
  <2>2. CASE g = f
    <3>1. log[f].bucket = <<p4Bucket(printed[f][1])>> /\ <<p4Bucket(printed[f][1])>> # <<>>
      BY <1>2, <2>1, <2>2 DEF LineInv
    <3>2. QED
      BY <1>2, <1>4, <1>5, <1>6, <2>1, <2>2, <3>1 DEF LineInv
  <2>3. CASE g # f
    BY <1>2, <1>6, <2>1, <2>3 DEF LineInv
  <2>4. QED
    BY <2>2, <2>3
<1>9. CellInv(recv, log, quic_flow_bytes)'
  <2>1. \A g \in Flows : log'[g].bucket = log[g].bucket
    BY <1>6
  <2>2. \A s : InCell(log', s) = InCell(log, s)
    BY <2>1 DEF InCell
  <2>3. CellInv(recv', log', quic_flow_bytes')
    BY <1>2, <2>2 DEF Experiment, CellInv
  <2>4. QED
    BY <2>3 DEF CellInv, Need, InCell
<1>10. FileInv'
  BY <1>2 DEF Experiment, ByteTyped, FileInv
<1>11. QED
  BY <1>7, <1>8, <1>9, <1>10 DEF Experiment

LEMMA OtherStep ==
  ASSUME Experiment, NEW s \in Cells, NEW n \in Nat, Other(s, n)
  PROVE  Experiment'
<1>1. /\ step = "client"
      /\ quic_flow_bytes' = [quic_flow_bytes EXCEPT ![s] = quic_flow_bytes[s] + n]
      /\ UNCHANGED <<script, step, exec, log, recv, switch, fetched, diff, singleBucket, printed>>
  BY DEF Other, Count, genVars, fileVars
<1>2. quic_flow_bytes \in [Cells -> Nat] /\ recv \in [Flows -> Nat]
  BY DEF Experiment, ByteTyped
<1>3. ByteTyped'
  <2>1. quic_flow_bytes[s] + n \in Nat
    BY <1>2
  <2>2. quic_flow_bytes' \in [Cells -> Nat]
    BY <1>1, <1>2, <2>1
  <2>3. QED
    BY <1>1, <2>2 DEF Experiment, ByteTyped
<1>4. (\A f \in Flows : LineInv(f))'
  BY <1>1 DEF Experiment, LineInv
<1>5. CellInv(recv, log, quic_flow_bytes)'
  <2>1. CellInv(recv, log, quic_flow_bytes)
    BY DEF Experiment
  <2>2. CellInv(recv, log, [quic_flow_bytes EXCEPT ![s] = quic_flow_bytes[s] + n])
    BY <1>2, <2>1, CellGrows
  <2>3. CellInv(recv', log', quic_flow_bytes')
    BY <1>1, <2>2
  <2>4. QED
    BY <2>3 DEF CellInv, Need, InCell
<1>6. FileInv'
  BY <1>1 DEF Experiment, ByteTyped, FileInv
<1>7. QED
  BY <1>3, <1>4, <1>5, <1>6 DEF Experiment

\* Cleared counts and an empty log.
LEMMA Cleared ==
  ASSUME NEW r, NEW l, NEW q, l = [f \in Flows |-> [bucket |-> <<>>, mb |-> <<>>]],
         q = [s \in 0 .. Slots - 1 |-> 0], r = [f \in Flows |-> 0]
  PROVE  /\ CellInv(r, l, q) /\ q \in [Cells -> Nat] /\ r \in [Flows -> Nat]
         /\ l \in [Flows -> Line]
         /\ \A f \in Flows : l[f].bucket = <<>> /\ l[f].mb = <<>> /\ r[f] = 0
<1>1. \A f \in Flows : l[f].bucket = <<>> /\ l[f].mb = <<>> /\ r[f] = 0
  OBVIOUS
<1>2. \A s : InCell(l, s) = {}
  BY <1>1 DEF InCell
<1>3. ASSUME NEW s \in Cells PROVE SumFunctionOnSet(Need(r), InCell(l, s)) <= q[s]
  <2>1. SumFunctionOnSet(Need(r), InCell(l, s)) = 0
    BY <1>2, SumEmpty
  <2>2. q[s] = 0
    BY DEF Cells
  <2>3. QED
    BY <2>1, <2>2
<1>4. q \in [Cells -> Nat] /\ r \in [Flows -> Nat] /\ l \in [Flows -> Line]
  BY DEF Cells, Line
<1>5. QED
  BY <1>1, <1>3, <1>4 DEF CellInv

LEMMA ResetStep ==
  ASSUME Experiment, ResetCounts
  PROVE  Experiment'
<1>1. /\ step = "reset" /\ step' = "client"
      /\ log' = [f \in Flows |-> [bucket |-> <<>>, mb |-> <<>>]]
      /\ quic_flow_bytes' = [s \in 0 .. Slots - 1 |-> 0] /\ recv' = [f \in Flows |-> 0]
      /\ UNCHANGED <<script, exec, switch, fetched, diff, singleBucket, printed>>
  BY DEF ResetCounts, genVars, fileVars
<1>2. /\ CellInv(recv', log', quic_flow_bytes')
      /\ quic_flow_bytes' \in [Cells -> Nat] /\ recv' \in [Flows -> Nat]
      /\ log' \in [Flows -> Line]
      /\ \A f \in Flows : log'[f].bucket = <<>> /\ log'[f].mb = <<>> /\ recv'[f] = 0
  BY <1>1, Cleared
<1>3. ByteTyped'
  BY <1>1, <1>2 DEF Experiment, ByteTyped, Steps
<1>4. (\A f \in Flows : LineInv(f))'
  BY <1>1, <1>2 DEF Experiment, ByteTyped, LineInv
<1>5. CellInv(recv, log, quic_flow_bytes)'
  BY <1>2 DEF CellInv, Need, InCell
<1>6. FileInv'
  BY <1>1 DEF Experiment, ByteTyped, FileInv
<1>7. QED
  BY <1>3, <1>4, <1>5, <1>6 DEF Experiment

\* The wire and the log between two clients.
LEMMA QuietFrame ==
  ASSUME Experiment, step' # "client", UNCHANGED <<log, quic_flow_bytes, recv>>
  PROVE  /\ (\A f \in Flows : LineInv(f))'
         /\ CellInv(recv, log, quic_flow_bytes)'
<1>1. (\A f \in Flows : LineInv(f))'
  BY DEF Experiment, LineInv
<1>2. CellInv(recv, log, quic_flow_bytes)'
  BY DEF Experiment, CellInv, Need, InCell
<1>3. QED
  BY <1>1, <1>2

\* The other steps of the scripts.
LEMMA ScriptStep ==
  ASSUME Experiment,
         (\E s \in Scripts : Preflight(s)) \/ Abort \/ FetchCounter \/ FetchFails \/ Analyze \/ RecordRow
  PROVE  Experiment' /\ UNCHANGED genVars
<1>1. UNCHANGED <<genVars, log, quic_flow_bytes, recv>> /\ step' # "client"
  BY DEF Preflight, Abort, FetchCounter, FetchFails, Analyze, RecordRow, wireVars
<1>2. UNCHANGED <<singleBucket, printed>>
  BY <1>1 DEF genVars
<1>3. (\A f \in Flows : LineInv(f))' /\ CellInv(recv, log, quic_flow_bytes)'
  BY <1>1, QuietFrame
<1>4. ASSUME NEW s \in Scripts, Preflight(s) PROVE ByteTyped' /\ FileInv'
  <2>1. /\ step = "idle" /\ script' = s /\ step' = "reset" /\ exec' = exec + 1
        /\ UNCHANGED <<switch, fetched, diff>>
    BY <1>4 DEF Preflight, fileVars
  <2>2. QED
    BY <1>1, <1>2, <2>1 DEF Experiment, ByteTyped, Steps, FileInv
<1>5. ASSUME Abort PROVE ByteTyped' /\ FileInv'
  <2>1. step \in {"reset", "dump"} /\ step' = "idle" /\ UNCHANGED <<script, exec, switch, fetched, diff>>
    BY <1>5 DEF Abort, fileVars
  <2>2. QED
    BY <1>1, <1>2, <2>1 DEF Experiment, ByteTyped, Steps, FileInv
<1>6. ASSUME FetchCounter PROVE ByteTyped' /\ FileInv'
  <2>1. /\ step = "dump" /\ step' = "analyze" /\ UNCHANGED <<script, exec, diff>>
        /\ switch' = [s \in {t \in Cells : quic_flow_bytes[t] > 0} |-> quic_flow_bytes[s]]
        /\ fetched' = exec
    BY <1>6 DEF FetchCounter, Cells
  <2>2. ByteTyped'
    BY <1>1, <1>2, <2>1 DEF Experiment, ByteTyped, Steps
  <2>3. DOMAIN switch' \in SUBSET Cells
    BY <2>1
  <2>3a. FileInv'
    BY <1>1, <2>1, <2>3 DEF Experiment, ByteTyped, FileInv
  <2>4. QED
    BY <2>2, <2>3a
<1>6a. ASSUME FetchFails PROVE ByteTyped' /\ FileInv'
  <2>1. step = "dump" /\ step' = "analyze" /\ UNCHANGED <<script, exec, switch, fetched, diff>>
    BY <1>6a DEF FetchFails, fileVars
  <2>2. ByteTyped'
    BY <1>1, <1>2, <2>1 DEF Experiment, ByteTyped, Steps
  <2>3. FileInv'
    BY <1>1, <2>1 DEF Experiment, ByteTyped, FileInv
  <2>4. QED
    BY <2>2, <2>3
<1>7. ASSUME Analyze PROVE ByteTyped' /\ FileInv'
  <2>1. /\ step = "analyze" /\ step' = "append" /\ UNCHANGED <<script, exec, switch, fetched>>
        /\ diff' = IF matched = {} THEN diff
                   ELSE [diff EXCEPT ![script] = [exec |-> exec, slots |-> matched]]
    BY <1>7 DEF Analyze
  <2>2. matched' = matched
    BY <1>1, <2>1 DEF matched, bucket_bytes, flowsIn, flows, ctr_idx, FoldSlots
  <2>3. /\ script \in Scripts /\ exec \in Nat
        /\ diff \in [Scripts -> [exec : Nat, slots : SUBSET Nat]]
    BY <2>1 DEF Experiment, ByteTyped
  <2>4. matched \in SUBSET Nat
    <3>2. matched \subseteq DOMAIN switch
      BY DEF matched
    <3>3. Cells \subseteq Nat
      BY Sizes DEF Cells
    <3>4. DOMAIN switch \subseteq Cells
      BY DEF Experiment, FileInv
    <3>5. QED
      BY <3>2, <3>3, <3>4
  <2>5. /\ diff' \in [Scripts -> [exec : Nat, slots : SUBSET Nat]]
        /\ matched # {} => diff'[script] = [exec |-> exec, slots |-> matched]
    <3> DEFINE e == [exec |-> exec, slots |-> matched]
    <3>1. e \in [exec : Nat, slots : SUBSET Nat]
      BY <2>3, <2>4
    <3> HIDE DEF e
    <3>2. diff' = IF matched = {} THEN diff ELSE [diff EXCEPT ![script] = e]
      BY <2>1 DEF e
    <3>3. QED
      BY <2>3, <3>1, <3>2 DEF e
  <2>6. ByteTyped'
    BY <1>1, <1>2, <2>1, <2>3, <2>5 DEF Experiment, ByteTyped, Steps
  <2>7. FileInv'
    BY <1>1, <2>1, <2>2, <2>5 DEF Experiment, FileInv
  <2>8. QED
    BY <2>6, <2>7
<1>8. ASSUME RecordRow PROVE ByteTyped' /\ FileInv'
  <2>1. step = "append" /\ step' = "idle" /\ UNCHANGED <<script, exec, switch, fetched, diff>>
    BY <1>8 DEF RecordRow
  <2>2. QED
    BY <1>1, <1>2, <2>1 DEF Experiment, ByteTyped, Steps, FileInv
<1>9. ByteTyped' /\ FileInv'
  BY <1>4, <1>5, <1>6, <1>6a, <1>7, <1>8
<1>10. QED
  BY <1>1, <1>3, <1>9 DEF Experiment

LEMMA ExitStep ==
  ASSUME GenInv, Experiment, ClientExit
  PROVE  GenInv' /\ Experiment'
<1>1. /\ step = "client" /\ step' \in {"dump", "idle"}
      /\ step' = "dump" => \E f \in Flows : log[f].mb # <<>>
      /\ printed' = [f \in Flows |-> <<>>]
      /\ UNCHANGED <<singleBucket, script, exec, log, quic_flow_bytes, recv, switch, fetched, diff>>
  BY DEF ClientExit, wireVars, fileVars
<1>2. GenInv'
  BY GenAssumption DEF ClientExit, GenInv
<1>3. ByteTyped'
  BY <1>1 DEF Experiment, ByteTyped, Steps
<1>4. (\A f \in Flows : LineInv(f))' /\ CellInv(recv, log, quic_flow_bytes)'
  BY <1>1, QuietFrame
<1>5. FileInv'
  BY <1>1 DEF Experiment, ByteTyped, FileInv
<1>6. QED
  BY <1>2, <1>3, <1>4, <1>5 DEF Experiment

\* The invariant holds at the start and survives every step.
THEOREM ByteInvariant == ByteSpec => []ByteInv
<1>1. ByteInit => ByteInv
  <2> SUFFICES ASSUME ByteInit PROVE ByteInv
    OBVIOUS
  <2>1. GenInv
    BY GenAssumption DEF ByteInit, GenInit, GenInv
  <2>2. /\ log = [f \in Flows |-> [bucket |-> <<>>, mb |-> <<>>]]
        /\ quic_flow_bytes = [s \in 0 .. Slots - 1 |-> 0] /\ recv = [f \in Flows |-> 0]
        /\ diff = [s \in Scripts |-> [exec |-> 0, slots |-> {}]]
        /\ exec = 0 /\ switch = Shipped /\ fetched = 0 /\ singleBucket \in BOOLEAN
        /\ step = (IF singleBucket THEN "idle" ELSE "byhand")
        /\ printed = [f \in Flows |-> <<>>]
    BY DEF ByteInit, GenInit
  <2>3. /\ CellInv(recv, log, quic_flow_bytes)
        /\ quic_flow_bytes \in [Cells -> Nat] /\ recv \in [Flows -> Nat]
        /\ log \in [Flows -> Line]
        /\ \A f \in Flows : log[f].bucket = <<>> /\ log[f].mb = <<>> /\ recv[f] = 0
    BY <2>2, Cleared
  <2>4. ByteTyped
    <3>1. diff \in [Scripts -> [exec : Nat, slots : SUBSET Nat]]
      BY <2>2
    <3>2. step \in Steps /\ (step # "byhand" => singleBucket) /\ step \in {"byhand", "idle"}
      BY <2>2 DEF Steps
    <3>3. QED
      BY <2>2, <2>3, <3>1, <3>2 DEF ByteTyped
  <2>5. step \in {"byhand", "idle"}
    BY <2>2
  <2>6. \A f \in Flows : LineInv(f)
    BY <2>3, <2>5 DEF LineInv
  <2>7. FileInv
    BY <2>2, <2>5, ByteAssumption DEF FileInv, Cells
  <2>8. QED
    BY <2>1, <2>3, <2>4, <2>6, <2>7 DEF ByteInv
<1>2. ByteInv /\ [ByteNext]_allVars => ByteInv'
  <2> SUFFICES ASSUME GenInv, Experiment, [ByteNext]_allVars
               PROVE  GenInv' /\ Experiment'
    BY DEF ByteInv, Experiment
  <2>1. ASSUME NEW f \in Flows, GenCall(f), UNCHANGED byteVars PROVE GenInv' /\ Experiment'
    <3>1. GenInv'
      BY <2>1, GenStep DEF GenNext
    <3>2. QED
      BY <2>1, <3>1, CallFrame, ExperimentFrame
  <2>2. ASSUME NEW f \in Flows, step = "byhand", Connected(f), UNCHANGED byteVars
        PROVE  GenInv' /\ Experiment'
    <3>1. GenInv' /\ UNCHANGED singleBucket
      BY <2>2, GenStep DEF GenNext, Connected
    <3>2. QED
      BY <2>2, <3>1, ByHandFrame
  <2>3. ASSUME NEW f \in Flows, Connect(f) PROVE GenInv' /\ Experiment'
    <3>1. GenInv'
      BY <2>3, GenStep DEF GenNext, Connect
    <3>2. QED
      BY <2>3, <3>1, ConnectStep
  <2>4. ASSUME UNCHANGED genVars PROVE GenInv'
    BY <2>4, GenStep
  <2>5. ASSUME NEW f \in Flows, Push(f) PROVE GenInv' /\ Experiment'
    BY <2>4, <2>5, PushStep DEF Push
  <2>6. ASSUME NEW f \in Flows, Delivered(f) PROVE GenInv' /\ Experiment'
    BY <2>4, <2>6, DeliveredStep DEF Delivered
  <2>7. ASSUME NEW s \in 0 .. Slots - 1, NEW n \in {Header, Header + Payload}, Other(s, n)
        PROVE  GenInv' /\ Experiment'
    <3>1. s \in Cells /\ n \in Nat
      BY Sizes DEF Cells
    <3>2. QED
      BY <2>4, <2>7, <3>1, OtherStep DEF Other
  <2>8. ASSUME (\E s \in Scripts : Preflight(s)) \/ Abort \/ FetchCounter \/ FetchFails \/ Analyze \/ RecordRow
        PROVE  GenInv' /\ Experiment'
    BY <2>4, <2>8, ScriptStep
  <2>9. ASSUME ResetCounts PROVE GenInv' /\ Experiment'
    BY <2>4, <2>9, ResetStep DEF ResetCounts
  <2>10. CASE UNCHANGED allVars
    <3>1. UNCHANGED <<genVars, byteVars, singleBucket, printed>>
      BY <2>10 DEF allVars, genVars
    <3>2. QED
      BY <2>4, <3>1, ExperimentFrame
  <2>11. QED
    BY <2>1, <2>2, <2>3, <2>5, <2>6, <2>7, <2>8, <2>9, <2>10, ExitStep DEF ByteNext
<1>3. QED
  BY <1>1, <1>2, PTL DEF ByteSpec

-----------------------------------------------------------------------------
(* The join of analyze_bytes.py *)

\* A flow with both lines where the folds agree: its slot is in the CSV, since
\* its cell holds at least its header.
LEMMA FlowFacts ==
  ASSUME ByteInv, step = "append", fetched = exec, Aligned, NEW f \in flows
  PROVE  /\ f \in Flows /\ log[f].bucket # <<>> /\ log[f].bucket[1] \in 0 .. NBuckets - 1
         /\ log[f].bucket = <<log[f].bucket[1]>>
         /\ ctr_idx(f) = log[f].bucket[1] % Slots
         /\ ctr_idx(f) \in DOMAIN switch
         /\ log[f].mb[1] \in Nat /\ recv[f] \in Nat
         /\ 2 * log[f].mb[1] <= 2 * recv[f] + Quantum
         /\ 2 * recv[f] <= 2 * log[f].mb[1] + Quantum
<1>1. /\ f \in Flows /\ log[f].bucket # <<>> /\ log[f].mb # <<>>
      /\ ctr_idx(f) = log[f].bucket[1] % Slots
  BY DEF flows, Aligned
<1>2. /\ log[f].bucket \in {<<>>} \cup {<<b>> : b \in 0 .. NBuckets - 1}
      /\ log[f].mb \in {<<>>} \cup {<<m>> : m \in Nat}
      /\ recv[f] \in Nat /\ recv \in [Flows -> Nat] /\ quic_flow_bytes \in [Cells -> Nat]
  <2>1. log \in [Flows -> Line] /\ recv \in [Flows -> Nat] /\ quic_flow_bytes \in [Cells -> Nat]
    BY DEF ByteInv, ByteTyped
  <2>2. log[f] \in Line
    BY <1>1, <2>1
  <2>3. QED
    BY <1>1, <2>1, <2>2 DEF Line
<1>3. PICK b \in 0 .. NBuckets - 1 : log[f].bucket = <<b>>
  BY <1>1, <1>2
<1>4. PICK m \in Nat : log[f].mb = <<m>>
  BY <1>1, <1>2
<1>5. log[f].bucket[1] = b /\ log[f].mb[1] = m
  BY <1>3, <1>4
<1>6. /\ 2 * log[f].mb[1] <= 2 * recv[f] + Quantum
      /\ 2 * recv[f] <= 2 * log[f].mb[1] + Quantum
  BY <1>1 DEF ByteInv, LineInv
<1> DEFINE s == b % Slots
           S == InCell(log, s)
<1>7. s \in Cells
  <2>1. b \in Nat
    BY Sizes
  <2>2. QED
    BY <2>1, Sizes, ModRange DEF Cells
<1>8. f \in S
  BY <1>1, <1>5 DEF InCell
<1>9. /\ S \in SUBSET Flows /\ IsFiniteSet(S)
      /\ \A g \in Flows : Need(recv)[g] = Header + recv[g] /\ Need(recv)[g] \in Nat
      /\ SumFunctionOnSet(Need(recv), S) \in Nat
  BY <1>2, CellFacts
<1>10. SumFunctionOnSet(Need(recv), S) <= quic_flow_bytes[s]
  BY <1>7 DEF ByteInv, CellInv
<1>11. \A g \in S : Need(recv)[g] \in Nat
  BY <1>9
<1>12. Need(recv)[f] <= SumFunctionOnSet(Need(recv), S)
  <2> HIDE DEF S
  <2>1. QED
    BY <1>8, <1>9, <1>11, SumSummand
<1>13. Need(recv)[f] = Header + recv[f] /\ Need(recv)[f] \in Nat
  BY <1>1, <1>9
<1>14. quic_flow_bytes[s] \in Nat
  BY <1>2, <1>7
<1>15. quic_flow_bytes[s] > 0
  <2> HIDE DEF S, s
  <2>1. QED
    BY <1>2, <1>9, <1>10, <1>12, <1>13, <1>14, Sizes
<1>16. ctr_idx(f) \in DOMAIN switch
  <2>1. switch = [c \in {t \in Cells : quic_flow_bytes[t] > 0} |-> quic_flow_bytes[c]]
    BY DEF ByteInv, FileInv
  <2>2. ctr_idx(f) = s
    BY <1>1, <1>5
  <2>3. QED
    BY <1>7, <1>15, <2>1, <2>2
<1>17. QED
  BY <1>1, <1>2, <1>3, <1>4, <1>5, <1>6, <1>16

\* The CSV is finite and holds the counter.
LEMMA SwitchFacts ==
  ASSUME ByteInv, step = "append", fetched = exec
  PROVE  /\ DOMAIN switch \in SUBSET Cells /\ IsFiniteSet(DOMAIN switch)
         /\ \A s \in DOMAIN switch : switch[s] = quic_flow_bytes[s] /\ switch[s] \in Nat
<1>1. switch = [s \in {t \in Cells : quic_flow_bytes[t] > 0} |-> quic_flow_bytes[s]]
  BY DEF ByteInv, FileInv
<1>2. quic_flow_bytes \in [Cells -> Nat]
  BY DEF ByteInv, ByteTyped
<1>3. IsFiniteSet(Cells)
  BY Sizes, FS_Interval DEF Cells
<1>4. DOMAIN switch \in SUBSET Cells
  BY <1>1
<1>5. QED
  BY <1>1, <1>2, <1>3, <1>4, FS_Subset

\* What the flows of a slot have received.
Received(s) == SumFunctionOnSet(recv, flowsIn(s))

\* The flows of a slot: what they received crossed the switch in that slot.
LEMMA SlotFacts ==
  ASSUME ByteInv, step = "append", fetched = exec, Aligned, NEW s
  PROVE  /\ flowsIn(s) = {f \in flows : log[f].bucket[1] % Slots = s}
         /\ flowsIn(s) \in SUBSET Flows /\ IsFiniteSet(flowsIn(s))
         /\ Cardinality(flowsIn(s)) \in Nat /\ Received(s) \in Nat
         /\ s \in DOMAIN switch => Received(s) <= switch[s]
         /\ s \in DOMAIN bucket_bytes <=> flowsIn(s) # {}
<1>1. flowsIn(s) = {f \in flows : log[f].bucket[1] % Slots = s}
  BY FlowFacts DEF flowsIn
<1>2. flowsIn(s) \in SUBSET Flows
  BY DEF flowsIn, flows
<1>3. IsFiniteSet(flowsIn(s))
  BY <1>2, Sizes, FS_Subset
<1>4. Cardinality(flowsIn(s)) \in Nat
  BY <1>3, FS_CardinalityType
<1>5. recv \in [Flows -> Nat]
  BY DEF ByteInv, ByteTyped
<1>6. \A f \in flowsIn(s) : recv[f] \in Nat
  BY <1>2, <1>5
<1>7. Received(s) \in Nat
  BY <1>3, <1>6, SumNat DEF Received
<1>8. ASSUME s \in DOMAIN switch PROVE Received(s) <= switch[s]
  <2> DEFINE F == flowsIn(s)
             S == InCell(log, s)
             N == Need(recv)
  <2>1. F \in SUBSET S
    BY <1>1 DEF InCell, flows
  <2>2. /\ S \in SUBSET Flows /\ IsFiniteSet(S)
        /\ \A g \in Flows : N[g] = Header + recv[g] /\ N[g] \in Nat
        /\ SumFunctionOnSet(N, S) \in Nat
    BY <1>5, CellFacts
  <2>3. SumFunctionOnSet(N, S) <= switch[s] /\ switch[s] \in Nat
    <3>1. s \in Cells /\ switch[s] = quic_flow_bytes[s] /\ switch[s] \in Nat
      BY <1>8, SwitchFacts
    <3>2. QED
      BY <3>1 DEF ByteInv, CellInv
  <2>4. IsFiniteSet(F) /\ F \in SUBSET Flows
    BY <1>2, <1>3
  <2> HIDE DEF F, S, N
  <2>5. \A g \in F : recv[g] \in Int /\ N[g] \in Int /\ recv[g] <= N[g]
    BY <1>5, <2>2, <2>4, Sizes
  <2>6. SumFunctionOnSet(recv, F) <= SumFunctionOnSet(N, F)
    BY <2>4, <2>5, SumMonotone
  <2>7. \A g \in S : N[g] \in Nat
    BY <2>2
  <2>8. SumFunctionOnSet(N, F) <= SumFunctionOnSet(N, S)
    BY <2>1, <2>2, <2>7, SumSubset
  <2>9. \A g \in F : N[g] \in Nat
    BY <2>2, <2>4
  <2>10. SumFunctionOnSet(N, F) \in Nat
    BY <2>4, <2>9, SumNat
  <2>11. Received(s) = SumFunctionOnSet(recv, F)
    BY DEF Received, F
  <2>12. QED
    BY <1>7, <2>2, <2>3, <2>6, <2>8, <2>10, <2>11
<1>9. s \in DOMAIN bucket_bytes <=> flowsIn(s) # {}
  BY DEF bucket_bytes, flowsIn
<1>10. QED
  BY <1>1, <1>2, <1>3, <1>4, <1>7, <1>8, <1>9

\* The delivered bytes of a slot are within the decimals of what was received.
LEMMA AppFacts ==
  ASSUME ByteInv, step = "append", fetched = exec, Aligned, NEW s \in DOMAIN bucket_bytes
  PROVE  /\ bucket_bytes[s] \in Nat
         /\ 2 * bucket_bytes[s] <= 2 * Received(s) + Quantum * Cardinality(flowsIn(s))
         /\ 2 * Received(s) <= 2 * bucket_bytes[s] + Quantum * Cardinality(flowsIn(s))
<1> DEFINE F == flowsIn(s)
           m == [f \in F |-> log[f].mb[1]]
<1>1. bucket_bytes[s] = SumFunctionOnSet(m, F)
  <2>1. s \in {ctr_idx(f) : f \in flows}
    BY DEF bucket_bytes
  <2>2. bucket_bytes[s] = SumFunction(m)
    BY <2>1 DEF bucket_bytes
  <2>3. DOMAIN m = F
    OBVIOUS
  <2>4. QED
    BY <2>2, <2>3 DEF SumFunction
<1>2. IsFiniteSet(F) /\ F \in SUBSET flows
  BY SlotFacts DEF flowsIn
<1>3. \A f \in F : /\ m[f] \in Nat /\ recv[f] \in Nat
                   /\ 2 * m[f] <= 2 * recv[f] + Quantum
                   /\ 2 * recv[f] <= 2 * m[f] + Quantum
  BY <1>2, FlowFacts
<1>4. Received(s) = SumFunctionOnSet(recv, F)
  BY DEF Received
<1> HIDE DEF F, m
<1>5. SumFunctionOnSet(m, F) \in Nat
  BY <1>2, <1>3, SumNat
<1>6. Quantum \in Nat /\ \A f \in F : m[f] \in Int /\ recv[f] \in Int
  BY <1>3, Sizes
<1>7. 2 * SumFunctionOnSet(m, F) <= 2 * SumFunctionOnSet(recv, F) + Quantum * Cardinality(F)
  BY <1>2, <1>3, <1>6, SumClose
<1>8. 2 * SumFunctionOnSet(recv, F) <= 2 * SumFunctionOnSet(m, F) + Quantum * Cardinality(F)
  BY <1>2, <1>3, <1>6, SumClose
<1>9. QED
  BY <1>1, <1>4, <1>5, <1>7, <1>8 DEF F

\* Every slot of the application matched, and the diff says so.
LEMMA JoinFacts ==
  ASSUME ByteInv, step = "append", fetched = exec, Aligned
  PROVE  /\ matched = DOMAIN bucket_bytes /\ DOMAIN bucket_bytes \in SUBSET DOMAIN switch
         /\ diff[script] = [exec |-> exec, slots |-> matched]
<1>1. DOMAIN bucket_bytes \in SUBSET DOMAIN switch
  BY FlowFacts DEF bucket_bytes
<1>2. matched = DOMAIN bucket_bytes
  BY <1>1 DEF matched
<1>3. PICK f \in Flows : log[f].mb # <<>>
  BY DEF ByteInv, FileInv
<1>4. f \in flows
  BY <1>3 DEF ByteInv, LineInv, flows
<1>5. ctr_idx(f) \in DOMAIN bucket_bytes
  BY <1>4 DEF bucket_bytes
<1>6. QED
  BY <1>1, <1>2, <1>5 DEF ByteInv, FileInv

-----------------------------------------------------------------------------
(* What the analysis may rely on *)

\* NoUndercount, for every number of flows, fold, packet size and rounding, and
\* for every CSV an earlier execution or the clone has left: the
\* data plane misses no flow that delivered, and a slot falls short of its
\* flows by no more than the decimals of their lines (compute_diff).
THEOREM UndercountInvariant == ByteSpec => []NoUndercount
<1>1. ByteInv => NoUndercount
  <2> SUFFICES ASSUME ByteInv, step = "append", fetched = exec, Aligned
               PROVE  /\ app_only = {} /\ control \cap DOMAIN bucket_bytes = {}
                      /\ \A s \in matched :
                           2 * delta(s) >= 0 - Quantum * Cardinality(flowsIn(s))
    BY DEF NoUndercount, Joined
  <2>1. app_only = {}
    BY JoinFacts DEF app_only
  <2>2. control \cap DOMAIN bucket_bytes = {}
    BY JoinFacts DEF control
  <2>3. ASSUME NEW s \in matched
        PROVE  2 * delta(s) >= 0 - Quantum * Cardinality(flowsIn(s))
    <3>1. s \in DOMAIN bucket_bytes /\ s \in DOMAIN switch
      BY JoinFacts
    <3>2. /\ Received(s) \in Nat /\ Received(s) <= switch[s]
          /\ Cardinality(flowsIn(s)) \in Nat
      BY <3>1, SlotFacts
    <3>3. /\ bucket_bytes[s] \in Nat
          /\ 2 * bucket_bytes[s] <= 2 * Received(s) + Quantum * Cardinality(flowsIn(s))
      BY <3>1, AppFacts
    <3>4. switch[s] \in Nat
      BY <3>1, SwitchFacts
    <3>5. Quantum * Cardinality(flowsIn(s)) \in Nat
      BY <3>2, Sizes
    <3>6. QED
      BY <3>2, <3>3, <3>4, <3>5 DEF delta
  <2>4. QED
    BY <2>1, <2>2, <2>3
<1>2. QED
  BY <1>1, ByteInvariant, PTL

\* rank_map: of two slots the heavier one has the smaller rank.
LEMMA RankStrict ==
  ASSUME NEW v, IsFiniteSet(DOMAIN v), \A c \in DOMAIN v : v[c] \in Int,
         NEW order, \A c \in DOMAIN v : order[c] \in Int,
         NEW s \in DOMAIN v, NEW t \in DOMAIN v, v[s] > v[t]
  PROVE  rank_map(v, order)[s] < rank_map(v, order)[t]
<1> DEFINE before(x) == {c \in DOMAIN v :
                           v[c] > v[x] \/ (v[c] = v[x] /\ order[c] < order[x])}
<1>1. /\ rank_map(v, order)[s] = 1 + Cardinality(before(s))
      /\ rank_map(v, order)[t] = 1 + Cardinality(before(t))
  BY DEF rank_map
<1>2. s \in before(t) /\ s \notin before(s)
  OBVIOUS
<1>3. before(s) \in SUBSET before(t)
  OBVIOUS
<1>4. IsFiniteSet(before(t))
  BY FS_Subset
<1> HIDE DEF before
<1>5. QED
  BY <1>1, <1>2, <1>3, <1>4, CardStrict

\* rank_map: a slot heavier than every other one is first.
LEMMA RankFirst ==
  ASSUME NEW v, NEW order, NEW s \in DOMAIN v, \A c \in DOMAIN v : v[c] \in Int,
         order[s] \in Int, \A c \in DOMAIN v \ {s} : v[s] > v[c]
  PROVE  rank_map(v, order)[s] = 1
<1> DEFINE before == {c \in DOMAIN v :
                        v[c] > v[s] \/ (v[c] = v[s] /\ order[c] < order[s])}
<1>1. before = {}
  <2> SUFFICES ASSUME NEW c \in DOMAIN v, v[c] > v[s] \/ (v[c] = v[s] /\ order[c] < order[s])
               PROVE  FALSE
    OBVIOUS
  <2>1. CASE c = s
    BY <2>1
  <2>2. CASE c # s
    BY <2>2
  <2>3. QED
    BY <2>1, <2>2
<1>2. Cardinality(before) = 0
  BY <1>1, FS_EmptySet
<1>3. rank_map(v, order)[s] = 1 + Cardinality(before)
  BY DEF rank_map
<1> HIDE DEF before
<1>4. QED
  BY <1>2, <1>3

\* A gap wider than the other slot's overhead and the decimals of both shows on
\* the wire and in the log.
LEMMA ClearGap ==
  ASSUME ByteInv, step = "append", fetched = exec, Aligned, NEW s \in matched, NEW t \in DOMAIN switch,
         NEW a, a = (IF t \in matched THEN bucket_bytes[t] ELSE 0),
         2 * (bucket_bytes[s] - a - excess(t)) >
           Quantum * Cardinality(flowsIn(s)) + Quantum * Cardinality(flowsIn(t))
  PROVE  switch[s] > switch[t] /\ bucket_bytes[s] > a
<1> DEFINE p == Quantum * Cardinality(flowsIn(s))
           q == Quantum * Cardinality(flowsIn(t))
<1>1. s \in DOMAIN bucket_bytes /\ s \in DOMAIN switch
  BY JoinFacts
<1>2. Received(s) \in Nat /\ Received(s) <= switch[s] /\ Cardinality(flowsIn(s)) \in Nat
  BY <1>1, SlotFacts
<1>3. bucket_bytes[s] \in Nat /\ 2 * bucket_bytes[s] <= 2 * Received(s) + p
  BY <1>1, AppFacts
<1>4. switch[s] \in Nat /\ switch[t] \in Nat
  BY <1>1, SwitchFacts
<1>5. Received(t) \in Nat /\ Received(t) <= switch[t] /\ Cardinality(flowsIn(t)) \in Nat
  BY SlotFacts
<1>6. p \in Nat /\ q \in Nat
  BY <1>2, <1>5, Sizes
<1>7. excess(t) = switch[t] - Received(t)
  <2>1. flowsIn(t) = {f \in flows : log[f].bucket[1] % Slots = t}
    BY SlotFacts
  <2>2. QED
    BY <2>1 DEF excess, Received
<1>8. a \in Nat /\ 2 * Received(t) <= 2 * a + q
  <2>1. CASE t \in matched
    <3>1. t \in DOMAIN bucket_bytes /\ a = bucket_bytes[t]
      BY <2>1, JoinFacts
    <3>2. QED
      BY <3>1, AppFacts
  <2>2. CASE t \notin matched
    <3>1. flowsIn(t) = {}
      BY <2>2, SlotFacts, JoinFacts
    <3>2. Received(t) = 0
      BY <3>1, SumEmpty DEF Received
    <3>3. a = 0
      BY <2>2
    <3> HIDE DEF q
    <3>4. QED
      BY <1>6, <3>2, <3>3
  <2>3. QED
    BY <2>1, <2>2
<1>9. 2 * (bucket_bytes[s] - a - excess(t)) > p + q
  OBVIOUS
<1> HIDE DEF p, q
<1>10. QED
  BY <1>2, <1>3, <1>4, <1>5, <1>6, <1>7, <1>8, <1>9

\* The values and orders that are ranked are finite and integers.
LEMMA RankedFacts ==
  ASSUME ByteInv, step = "append", fetched = exec, Aligned
  PROVE  /\ IsFiniteSet(DOMAIN switch) /\ IsFiniteSet(DOMAIN bucket_bytes)
         /\ \A c \in DOMAIN switch : switch[c] \in Int /\ c \in Int
         /\ \A c \in DOMAIN bucket_bytes : bucket_bytes[c] \in Int /\ Min(flowsIn(c)) \in Int
<1>1. IsFiniteSet(DOMAIN switch) /\ IsFiniteSet(DOMAIN bucket_bytes)
  BY SwitchFacts, JoinFacts, FS_Subset
<1>2. \A c \in DOMAIN switch : switch[c] \in Int /\ c \in Int
  BY SwitchFacts DEF Cells
<1>3. ASSUME NEW c \in DOMAIN bucket_bytes
      PROVE  bucket_bytes[c] \in Int /\ Min(flowsIn(c)) \in Int
  <2>1. bucket_bytes[c] \in Int
    BY AppFacts
  <2>2. flowsIn(c) # {} /\ IsFiniteSet(flowsIn(c)) /\ flowsIn(c) \in SUBSET Int
    <3>1. flowsIn(c) # {} /\ IsFiniteSet(flowsIn(c)) /\ flowsIn(c) \in SUBSET Flows
      BY SlotFacts
    <3>2. Flows \in SUBSET Int
      BY ByteAssumption
    <3>3. QED
      BY <3>1, <3>2
  <2>3. \E x \in flowsIn(c) : \A y \in flowsIn(c) : x <= y
    BY <2>2, LeastExists
  <2>4. Min(flowsIn(c)) \in flowsIn(c)
    BY <2>3 DEF Min
  <2>5. QED
    BY <2>1, <2>2, <2>4
<1>4. QED
  BY <1>1, <1>2, <1>3

\* RankingAgrees, for every number of flows and every packet size: where the gap
\* is wide enough rank_map of the log and of the CSV put two slots in the same
\* order, and the heaviest such slot is an exact match of the top TopK.
THEOREM RankingInvariant == ByteSpec => []RankingAgrees
<1>1. ByteInv => RankingAgrees
  <2> DEFINE app(s) == IF s \in matched THEN bucket_bytes[s] ELSE 0
             slack(s) == Quantum * Cardinality(flowsIn(s))
             clear(s, t) == 2 * (app(s) - app(t) - excess(t)) > slack(s) + slack(t)
  <2> SUFFICES ASSUME ByteInv, step = "append", fetched = exec, Aligned
               PROVE  /\ \A s \in matched, t \in DOMAIN switch :
                           clear(s, t) => sw_rank[s] < sw_rank[t]
                                          /\ (t \in matched => app_rank[s] < app_rank[t])
                      /\ \A s \in matched :
                           (app_rank[s] <= TopK /\ \A t \in DOMAIN switch \ {s} : clear(s, t))
                             => s \in exact
    BY DEF RankingAgrees, Joined
  <2> DEFINE so == [s \in DOMAIN switch |-> s]
             ao == [s \in DOMAIN bucket_bytes |-> Min(flowsIn(s))]
  <2>1. /\ IsFiniteSet(DOMAIN switch) /\ IsFiniteSet(DOMAIN bucket_bytes)
        /\ \A c \in DOMAIN switch : switch[c] \in Int /\ so[c] \in Int
        /\ \A c \in DOMAIN bucket_bytes : bucket_bytes[c] \in Int /\ ao[c] \in Int
    BY RankedFacts
  <2>2. sw_rank = rank_map(switch, so) /\ app_rank = rank_map(bucket_bytes, ao)
    BY DEF sw_rank, app_rank
  <2>3. matched = DOMAIN bucket_bytes /\ matched \in SUBSET DOMAIN switch
    BY JoinFacts
  <2>4. ASSUME NEW s \in matched, NEW t \in DOMAIN switch, clear(s, t)
        PROVE  switch[s] > switch[t] /\ (t \in matched => bucket_bytes[s] > bucket_bytes[t])
    <3>1. switch[s] > switch[t] /\ bucket_bytes[s] > app(t)
      BY <2>4, ClearGap
    <3>2. QED
      BY <3>1
  <2> HIDE DEF so, ao, clear
  <2>5. ASSUME NEW s \in matched, NEW t \in DOMAIN switch, clear(s, t)
        PROVE  sw_rank[s] < sw_rank[t] /\ (t \in matched => app_rank[s] < app_rank[t])
    <3>1. sw_rank[s] < sw_rank[t]
      BY <2>1, <2>2, <2>3, <2>4, <2>5, RankStrict
    <3>2. ASSUME t \in matched PROVE app_rank[s] < app_rank[t]
      BY <2>1, <2>2, <2>3, <2>4, <2>5, <3>2, RankStrict
    <3>3. QED
      BY <3>1, <3>2
  <2>6. ASSUME NEW s \in matched, app_rank[s] <= TopK,
               \A t \in DOMAIN switch \ {s} : clear(s, t)
        PROVE  s \in exact
    <3>1. sw_rank[s] = 1
      BY <2>1, <2>2, <2>3, <2>4, <2>6, RankFirst
    <3>2. app_rank[s] = 1
      BY <2>1, <2>2, <2>3, <2>4, <2>6, RankFirst
    <3>3. s \in DOMAIN app_rank /\ s \in DOMAIN sw_rank
      BY <2>2, <2>3 DEF rank_map
    <3>4. QED
      BY <2>6, <3>1, <3>2, <3>3 DEF exact, overlap, top
  <2>7. QED
    BY <2>5, <2>6
<1>2. QED
  BY <1>1, ByteInvariant, PTL

\* The generators keep their promise inside the experiment: with -single-cid the
\* server may use any issued ID, and Push relies on the printed bucket.
THEOREM PrintedInvariant == ByteSpec => []OnePrintedBucket
<1>1. ByteInv => OnePrintedBucket
  BY PrintedBucket DEF ByteInv
<1>2. QED
  BY <1>1, ByteInvariant, PTL
=============================================================================
