-------------------------- MODULE QuicReaderProofs --------------------------
(***************************************************************************)
(* The readers of the switch, for every packet set, hash function and      *)
(* register size.                                                          *)
(*                                                                         *)
(* First the register dumps and the live views: what a reader that walks a *)
(* table cell by cell may conclude from it while packets keep flowing.     *)
(*                                                                         *)
(* Then the offline replica and the ground truth, for every capture,       *)
(* number of workers and cut.  The recursive phases of the tool are given  *)
(* a closed form in the record numbers (what records a + 1 .. b teach, how *)
(* many of them fall into a bucket), which joins at a cut; the registers   *)
(* of the switch are the same counts over the packets that crossed.        *)
(***************************************************************************)
EXTENDS QuicViews, GroundTruth, QuicSwitchProofs, SequenceTheorems

-----------------------------------------------------------------------------
(* Dumps and live views: the inductive invariant *)

\* The one Python shell: a poll holds it as long as poll_quic.py runs, and the
\* callback is the display's as long as display_quic.py does.
ShellInv ==
  /\ poll \in {"off", "warm", "pull", "sleep"}
  /\ poll # "off" <=> shell = "poll"
  /\ shell = "display" => learn_client = "display"

\* Only QUIC packets are digested.
DigestInv ==
  \A i \in 1 .. Len(digests) : \E p \in Packets : Quic(p) /\ digests[i] = quic_digest(p)

\* What the script in the shell may rely on: no cell it reads goes back.
Rows(size) == 0 .. size - 1
DumpInv ==
  shell = "scan" =>
     /\ node \in Nodes /\ at \in 0 .. Size(node)
     /\ base \in [Rows(Size(node)) -> Nat] /\ rows \subseteq Rows(at) \X Nat
     /\ node \in Counting /\ npackets < CntMod =>
          /\ \A i \in Rows(Size(node)) : base[i] <= Table(node)[i]
          /\ \A r \in rows : base[r[1]] <= r[2] /\ r[2] <= Table(node)[r[1]]
          /\ \A i \in Rows(at) :
               base[i] > 0 /\ (node = "quic_pkt_count" => base[i] >= MinCount)
                  => \E r \in rows : r[1] = i

\* Packets and bytes, compared component by component.
Pair == Nat \X Nat
Below(x, y) == x[1] <= y[1] /\ x[2] <= y[2]
Sum(x, y) == <<x[1] + y[1], x[2] + y[2]>>
Read(c) == Get(pulled, c, <<0, 0>>)
Dict(d) == DOMAIN d \subseteq Ctrs /\ \A c \in DOMAIN d : d[c] \in Pair

PollTyped ==
  /\ at \in 0 .. NCtrs /\ now \in Nat
  /\ Dict(pulled) /\ Dict(prev)
  /\ moved \in [Ctrs -> Pair]
  /\ marks \in [w0 : [Ctrs -> Pair], w1 : [Ctrs -> Pair],
                began : [Ctrs -> Pair], ended : [Ctrs -> Pair]]

\* The cells read so far lie between their values when the pull began and now.
PulledInv(lo) ==
  /\ DOMAIN pulled \subseteq Rows(at)
  /\ \A c \in Rows(at) : Below(lo[c], Read(c)) /\ Below(Read(c), Cell(c))

\* What was printed is what the slot has moved since its read of the warm-up.
MovedInv(c) ==
  /\ Below(Sum(marks.w0[c], moved[c]), Previous(c))
  /\ Below(Previous(c), Sum(marks.w1[c], moved[c]))
  /\ Below(Previous(c), marks.ended[c])
  /\ Below(marks.ended[c], Cell(c))

PollInv ==
  poll # "off" =>
     /\ PollTyped
     /\ poll = "warm" =>
          /\ PulledInv(marks.w0) /\ now = 0
          /\ \A c \in Ctrs : moved[c] = <<0, 0>> /\ Below(marks.w0[c], Cell(c))
     /\ poll # "warm" => \A c \in Ctrs : MovedInv(c)
     /\ poll = "pull" =>
          /\ PulledInv(marks.began)
          /\ \A c \in Ctrs : Below(marks.ended[c], marks.began[c]) /\ Below(marks.began[c], Cell(c))
     /\ poll = "sleep" /\ now > 0 => \A c \in Ctrs : Below(marks.began[c], Previous(c))

\* The buckets counting, and the line printed for a digest.
CountingNow == {b \in Buckets : quic_pkt_count[b] > 0}
LineOf(d) == [form |-> d.form, dcid_len |-> d.dcid_len, dcid |-> truncate_dcid(d.dcid, d.dcid_len)]
Lines == {LineOf(d) : d \in Digest}
LineOfPacket(l) == \E p \in Packets : Quic(p) /\ l.form = p.form /\ l.dcid = ShownFor(p)

DisplayInv ==
  shell = "display" =>
     /\ since.waiting \in Nat /\ lines \in Seq(Lines)
     /\ since.counting \subseteq Buckets
     /\ npackets < CntMod =>
          /\ since.counting \subseteq CountingNow
          /\ Len(lines) + Len(digests) = since.waiting + Cardinality(CountingNow \ since.counting)
     /\ \A i \in 1 .. Len(lines) : LineOfPacket(lines[i])

ViewInv == /\ TypeOK /\ CellsBounded /\ ShellInv /\ DigestInv
           /\ DumpInv /\ PollInv /\ DisplayInv

-----------------------------------------------------------------------------
(* The switch under the views *)

\* A packet never takes a count back, as long as no register cell wraps.
LEMMA CellsGrow ==
  ASSUME TypeOK, CellsBounded, NEW p \in Packets, Process(p)
  PROVE  /\ \A c \in Ctrs : /\ quic_flow_pkts[c] <= quic_flow_pkts'[c]
                            /\ quic_flow_bytes[c] <= quic_flow_bytes'[c]
         /\ npackets' < CntMod =>
              /\ npackets < CntMod
              /\ \A b \in Buckets : quic_pkt_count[b] <= quic_pkt_count'[b]
<1> DEFINE b == flow_id(p)
           s == CtrOf(flow_id(p))
<1>1. b \in Buckets /\ s \in Ctrs /\ p.bytes \in Nat
  BY BucketExists, PacketFields
<1>2. /\ \A x \in Buckets : quic_pkt_count[x] \in Nat
      /\ npackets \in Nat /\ npackets' = npackets + 1 /\ CntMod \in Nat \ {0, 1}
      /\ \A x \in Ctrs : quic_flow_pkts[x] \in Nat /\ quic_flow_bytes[x] \in Nat
  BY SizesAssumption DEF TypeOK, Process
<1>3. CASE ~Quic(p)
  BY <1>2, <1>3 DEF Process
<1>4. CASE Quic(p)
  <2>1. /\ quic_flow_pkts' = [quic_flow_pkts EXCEPT ![s] = quic_flow_pkts[s] + 1]
        /\ quic_flow_bytes' = [quic_flow_bytes EXCEPT ![s] = quic_flow_bytes[s] + p.bytes]
        /\ quic_pkt_count' = [quic_pkt_count EXCEPT ![b] = count_quic(b)]
    BY <1>4 DEF Process, Count
  <2>2. npackets' < CntMod => count_quic(b) = quic_pkt_count[b] + 1
    <3>1. quic_pkt_count[b] \in Nat /\ quic_pkt_count[b] <= npackets
      BY <1>1, <1>2 DEF CellsBounded
    <3> HIDE DEF b
    <3>2. QED
      BY <1>2, <3>1 DEF count_quic
  <2> HIDE DEF b, s
  <2>3. \A c \in Ctrs : /\ quic_flow_pkts[c] <= quic_flow_pkts'[c]
                        /\ quic_flow_bytes[c] <= quic_flow_bytes'[c]
    BY <1>1, <1>2, <2>1 DEF TypeOK
  <2>4. npackets' < CntMod => \A x \in Buckets : quic_pkt_count[x] <= quic_pkt_count'[x]
    BY <1>1, <1>2, <2>1, <2>2 DEF TypeOK
  <2>5. QED
    BY <1>2, <2>3, <2>4
<1>5. QED
  BY <1>3, <1>4

\* What a step of the views and dumps, other than a packet, a reset or a digest
\* delivered to nobody, leaves alone.
Own == \/ Dump /\ UNCHANGED viewVars
       \/ Poll
       \/ Display

LEMMA OwnFrame ==
  ASSUME ShellInv, Own
  PROVE  UNCHANGED <<regVars, tblVars, npackets, nolearn>>
<1> USE DEF vars, dgstVars
<1>1. CASE Dump
  BY <1>1 DEF Dump, DumpBegin, ReadCell, DumpEnd
<1>2. CASE Poll
  BY <1>2 DEF Poll, PollStart, PullSlot, PollWarmUp, PollAgain, PollPrint, PollStop
<1>3. CASE Display
  BY <1>3 DEF Display, DisplayStart, DisplayRefused, on_quic_digest, DisplayKill
<1>4. QED
  BY <1>1, <1>2, <1>3 DEF Own

\* The shell and the callback, step by step.
LEMMA ShellStep ==
  ASSUME TypeOK, ShellInv, [ViewNext]_<<allVars, viewVars>>
  PROVE  /\ ShellInv'
         /\ shell' \in Shells /\ learn_client' \in LearnClients
         /\ nscripts' \in 0 .. MaxScripts
<1> USE SizesAssumption DEF ShellInv, Shells, LearnClients, TypeOK
<1>1. CASE PollStart
  BY <1>1 DEF PollStart, Begin, dgstVars
<1>2. CASE PullSlot \/ PollWarmUp \/ PollAgain \/ PollPrint
  BY <1>2 DEF PullSlot, PollWarmUp, PollAgain, PollPrint, vars, dgstVars
<1>3. CASE PollStop
  BY <1>3 DEF PollStop, dgstVars
<1>4. CASE DisplayStart
  BY <1>4 DEF DisplayStart, Begin, pollVars
<1>5. CASE DisplayRefused \/ on_quic_digest
  BY <1>5 DEF DisplayRefused, on_quic_digest, pollVars, viewVars, dgstVars
<1>6. CASE DisplayKill
  BY <1>6 DEF DisplayKill, pollVars
<1>7. CASE Dump /\ UNCHANGED viewVars
  BY <1>7 DEF Dump, DumpBegin, ReadCell, DumpEnd, Begin, vars, dgstVars, viewVars, pollVars
<1>8. CASE (\E p \in Packets : Process(p)) /\ UNCHANGED viewVars
  BY <1>8 DEF Process, viewVars, pollVars
<1>9. CASE Reset /\ UNCHANGED viewVars
  BY <1>9 DEF Reset, ResetPktCount, ResetFlowBytes, ResetLens, Begin, Continue, dgstVars,
              viewVars, pollVars
<1>10. CASE Deliver /\ UNCHANGED viewVars
  BY <1>10 DEF Deliver, viewVars, pollVars
<1>11. CASE UNCHANGED <<allVars, viewVars>>
  BY <1>11 DEF allVars, vars, dgstVars, viewVars, pollVars
<1>12. QED
  BY <1>1, <1>2, <1>3, <1>4, <1>5, <1>6, <1>7, <1>8, <1>9, <1>10, <1>11
  DEF ViewNext, Poll, Display, DumpNext

\* The queue of digests: a packet appends its own, a callback takes the oldest.
LEMMA DigestStep ==
  ASSUME TypeOK, DigestInv, [ViewNext]_<<allVars, viewVars>>
  PROVE  DigestInv' /\ digests' \in Seq(Digest)
<1>0. digests \in Seq(Digest)
  BY DEF TypeOK
<1>1. CASE digests' = digests
  BY <1>0, <1>1 DEF DigestInv
<1>2. CASE digests # <<>> /\ digests' = Tail(digests)
  <2>1. /\ digests' \in Seq(Digest) /\ Len(digests) \in Nat /\ Len(digests') = Len(digests) - 1
        /\ \A i \in 1 .. Len(digests') : i + 1 \in 1 .. Len(digests) /\ digests'[i] = digests[i + 1]
    BY <1>0, <1>2
  <2>2. QED
    BY <2>1 DEF DigestInv
<1>3. ASSUME NEW p \in Packets, Quic(p), digests' = Append(digests, quic_digest(p))
      PROVE  DigestInv' /\ digests' \in Seq(Digest)
  <2>1. quic_digest(p) \in Digest
    BY PacketFields
  <2> DEFINE d == quic_digest(p)
  <2> HIDE DEF d
  <2>2. digests' = Append(digests, d) /\ d \in Digest
    BY <1>3, <2>1 DEF d
  <2>3. /\ digests' \in Seq(Digest) /\ Len(digests) \in Nat /\ Len(digests') = Len(digests) + 1
        /\ digests'[Len(digests) + 1] = d
        /\ \A i \in 1 .. Len(digests) : digests'[i] = digests[i]
    BY <1>0, <2>2
  <2>4. \A i \in 1 .. Len(digests') : i \in 1 .. Len(digests) \/ i = Len(digests) + 1
    BY <2>3
  <2>5. \A i \in 1 .. Len(digests') : \E q \in Packets : Quic(q) /\ digests'[i] = quic_digest(q)
    BY <1>3, <2>3, <2>4 DEF DigestInv, d
  <2>6. QED
    BY <2>3, <2>5 DEF DigestInv
<1>4. CASE \E p \in Packets : Process(p)
  <2>1. PICK p \in Packets : Process(p)
    BY <1>4
  <2>2. digests' = digests \/ (Quic(p) /\ digests' = Append(digests, quic_digest(p)))
    BY <2>1 DEF Process, Count
  <2>3. QED
    BY <1>1, <1>3, <2>2
<1>5. CASE Deliver \/ on_quic_digest
  BY <1>2, <1>5 DEF Deliver, on_quic_digest
<1>6. CASE Reset \/ Dump
  <2>1. digests' = digests
    BY <1>6 DEF Reset, ResetPktCount, ResetFlowBytes, ResetLens, Dump, DumpBegin, ReadCell,
                DumpEnd, vars, dgstVars
  <2>2. QED
    BY <1>1, <2>1
<1>7. CASE Poll
  <2>1. digests' = digests
    BY <1>7 DEF Poll, PollStart, PullSlot, PollWarmUp, PollAgain, PollPrint, PollStop,
                vars, dgstVars
  <2>2. QED
    BY <1>1, <2>1
<1>8. CASE DisplayStart \/ DisplayRefused \/ DisplayKill
  <2>1. digests' = digests
    BY <1>8 DEF DisplayStart, DisplayRefused, DisplayKill, dgstVars
  <2>2. QED
    BY <1>1, <2>1
<1>9. CASE UNCHANGED <<allVars, viewVars>>
  <2>1. digests' = digests
    BY <1>9 DEF allVars, vars, dgstVars
  <2>2. QED
    BY <1>1, <2>1
<1>10. QED
  BY <1>4, <1>5, <1>6, <1>7, <1>8, <1>9 DEF ViewNext, Display, DumpNext

\* The switch keeps its types and its cells stay bounded.
LEMMA SwitchStep ==
  ASSUME TypeOK, CellsBounded, ShellInv, DigestInv, [ViewNext]_<<allVars, viewVars>>
  PROVE  TypeOK' /\ CellsBounded'
<1>1. CASE (\E p \in Packets : Process(p)) \/ Reset \/ Deliver
  <2>1. [Next]_vars
    BY <1>1 DEF Next
  <2>2. CellsBounded'
    BY <2>1, CellsStep
  <2>3. QED
    BY <1>1, <2>2, ProcessType, ResetType, DeliverType
<1>2. CASE Own \/ UNCHANGED <<allVars, viewVars>>
  <2>1. UNCHANGED <<dcid_len_reg, quic_pkt_count, quic_flow_pkts, quic_flow_bytes, force_len,
                    forwarding, npackets, nolearn>>
    BY <1>2, OwnFrame DEF regVars, tblVars, allVars, vars, dgstVars
  <2>2. /\ shell' \in Shells /\ learn_client' \in LearnClients /\ nscripts' \in 0 .. MaxScripts
        /\ digests' \in Seq(Digest)
    BY ShellStep, DigestStep
  <2>3. QED
    BY <2>1, <2>2 DEF TypeOK, CellsBounded
<1>3. QED
  BY <1>1, <1>2 DEF ViewNext, DumpNext, Own

-----------------------------------------------------------------------------
(* The dumps *)

\* The table a dump reads: its cells are numbers.
LEMMA TableTyped ==
  ASSUME TypeOK, NEW n \in Nodes
  PROVE  Size(n) \in Nat \ {0} /\ Table(n) \in [Rows(Size(n)) -> Nat]
<1> USE SizesAssumption DEF Table, Size, Rows
<1>1. CASE n = "quic_pkt_count"
  BY <1>1 DEF TypeOK, Buckets
<1>2. CASE n = "quic_flow_bytes"
  BY <1>2 DEF TypeOK, Ctrs
<1>3. CASE n = "dcid_len_reg"
  <2>1. Table(n) = dcid_len_reg /\ Rows(Size(n)) = Keys /\ Size(n) = NKeys
    BY <1>3 DEF Keys
  <2>2. dcid_len_reg \in [Keys -> Nat]
    <3>1. dcid_len_reg \in [Keys -> 0 .. 255]
      BY DEF TypeOK
    <3>2. \A k \in Keys : dcid_len_reg[k] \in 0 .. 255
      BY <3>1
    <3>3. \A k \in Keys : dcid_len_reg[k] \in Nat
      BY <3>2
    <3>4. QED
      BY <3>1, <3>3
  <2>3. QED
    BY <2>1, <2>2
<1>4. QED
  BY <1>1, <1>2, <1>3 DEF Nodes

\* A packet lets the counts of the table grow.
LEMMA TableGrows ==
  ASSUME TypeOK, CellsBounded, NEW p \in Packets, Process(p), node' = node, node \in Counting,
         npackets' < CntMod
  PROVE  \A i \in Rows(Size(node)) : Table(node)[i] <= Table(node)'[i]
<1>1. CASE node = "quic_pkt_count"
  <2>1. Table(node) = quic_pkt_count /\ Table(node)' = quic_pkt_count' /\ Rows(Size(node)) = Buckets
    BY <1>1 DEF Table, Size, Rows, Buckets
  <2>2. QED
    BY <2>1, CellsGrow
<1>2. CASE node = "quic_flow_bytes"
  <2>1. Table(node) = quic_flow_bytes /\ Table(node)' = quic_flow_bytes' /\ Rows(Size(node)) = Ctrs
    BY <1>2 DEF Table, Size, Rows, Ctrs
  <2>2. QED
    BY <2>1, CellsGrow
<1>3. QED
  BY <1>1, <1>2 DEF Counting

\* The next cell is read: its value now is at least the one at the beginning.
LEMMA ReadCellStep ==
  ASSUME TypeOK, DumpInv, ReadCell
  PROVE  DumpInv'
<1>1. /\ shell = "scan" /\ node \in Nodes /\ at \in 0 .. Size(node) /\ at < Size(node)
      /\ at' = at + 1 /\ base \in [Rows(Size(node)) -> Nat] /\ rows \subseteq Rows(at) \X Nat
  BY DEF ReadCell, DumpInv
<1>2. /\ UNCHANGED <<shell, node, base, npackets, quic_pkt_count, quic_flow_bytes, dcid_len_reg>>
      /\ rows' = IF Kept(node, Table(node)[at])
                 THEN rows \cup {<<at, Table(node)[at]>>} ELSE rows
  BY DEF ReadCell, vars, regVars
<1>3. Table(node)' = Table(node) /\ Size(node)' = Size(node)
  BY <1>2 DEF Table, Size
<1> DEFINE v == Table(node)[at]
<1>4. Size(node) \in Nat /\ at \in Nat /\ at \in Rows(Size(node)) /\ v \in Nat
  <2>1. Size(node) \in Nat \ {0} /\ Table(node) \in [Rows(Size(node)) -> Nat]
    BY <1>1, TableTyped
  <2>2. at \in Rows(Size(node)) /\ at \in Nat
    BY <1>1, <2>1 DEF Rows
  <2>3. QED
    BY <2>1, <2>2
<1>5. Rows(at + 1) = Rows(at) \cup {at} /\ at \notin Rows(at) /\ at + 1 \in 0 .. Size(node)
  BY <1>1, <1>4 DEF Rows
<1>6. rows' = (IF Kept(node, v) THEN rows \cup {<<at, v>>} ELSE rows)
  BY <1>2
<1> HIDE DEF v
<1>7. rows' \subseteq Rows(at + 1) \X Nat
  BY <1>1, <1>4, <1>5, <1>6
<1>8. ASSUME node \in Counting, npackets < CntMod
      PROVE  /\ \A i \in Rows(Size(node)) : base[i] <= Table(node)[i]
             /\ \A r \in rows' : base[r[1]] <= r[2] /\ r[2] <= Table(node)[r[1]]
             /\ \A i \in Rows(at + 1) :
                  base[i] > 0 /\ (node = "quic_pkt_count" => base[i] >= MinCount)
                     => \E r \in rows' : r[1] = i
  <2>1. /\ \A i \in Rows(Size(node)) : base[i] <= Table(node)[i]
        /\ \A r \in rows : base[r[1]] <= r[2] /\ r[2] <= Table(node)[r[1]]
        /\ \A i \in Rows(at) :
             base[i] > 0 /\ (node = "quic_pkt_count" => base[i] >= MinCount)
                => \E r \in rows : r[1] = i
    BY <1>1, <1>8 DEF DumpInv
  <2>2. base[at] <= v /\ base[at] \in Nat
    BY <1>1, <1>4, <2>1 DEF v
  <2>3. \A r \in rows' : base[r[1]] <= r[2] /\ r[2] <= Table(node)[r[1]]
    <3> SUFFICES ASSUME NEW r \in rows'
                 PROVE  base[r[1]] <= r[2] /\ r[2] <= Table(node)[r[1]]
      OBVIOUS
    <3>1. CASE r \in rows
      BY <2>1, <3>1
    <3>2. CASE r = <<at, v>>
      <4>1. r[1] = at /\ r[2] = v
        BY <3>2
      <4>2. v <= Table(node)[at]
        BY <1>4 DEF v
      <4>3. QED
        BY <2>2, <4>1, <4>2
    <3>3. QED
      BY <1>6, <3>1, <3>2
  <2>4. base[at] > 0 /\ (node = "quic_pkt_count" => base[at] >= MinCount) => <<at, v>> \in rows'
    <3>1. base[at] > 0 /\ (node = "quic_pkt_count" => base[at] >= MinCount) => Kept(node, v)
      BY <1>4, <2>2, DumpAssumption DEF Kept
    <3>2. QED
      BY <1>6, <3>1
  <2>5. ASSUME NEW i \in Rows(at + 1), base[i] > 0,
               node = "quic_pkt_count" => base[i] >= MinCount
        PROVE  \E r \in rows' : r[1] = i
    <3>1. CASE i \in Rows(at)
      BY <1>6, <2>1, <2>5, <3>1
    <3>2. CASE i = at
      <4>1. <<at, v>> \in rows' /\ <<at, v>>[1] = i
        BY <2>4, <2>5, <3>2
      <4>2. QED
        BY <4>1
    <3>3. QED
      BY <1>5, <3>1, <3>2
  <2>6. QED
    BY <2>1, <2>3, <2>5
<1>9. QED
  BY <1>1, <1>2, <1>3, <1>5, <1>7, <1>8 DEF DumpInv

LEMMA DumpStep ==
  ASSUME TypeOK, TypeOK', CellsBounded, ShellInv, DumpInv, [ViewNext]_<<allVars, viewVars>>
  PROVE  DumpInv'
<1>1. CASE shell' # "scan"
  BY <1>1 DEF DumpInv
<1>2. CASE /\ shell' = "scan" /\ shell = "scan"
           /\ UNCHANGED <<regVars, npackets, dumpVars>>
  BY <1>2 DEF DumpInv, regVars, dumpVars, Table, Size, Rows
<1>3. CASE \E n \in Nodes : DumpBegin(n)
  <2>1. PICK n \in Nodes : DumpBegin(n)
    BY <1>3
  <2>2. /\ node' = n /\ at' = 0 /\ rows' = {} /\ base' = Table(n)
        /\ UNCHANGED <<quic_pkt_count, quic_flow_bytes, dcid_len_reg>>
    BY <2>1 DEF DumpBegin, regVars
  <2>3. Size(n) \in Nat \ {0} /\ Table(n) \in [Rows(Size(n)) -> Nat]
    BY TableTyped
  <2>4. Table(node)' = Table(n) /\ Size(node)' = Size(n)
    BY <2>2 DEF Table, Size
  <2>5. Rows(0) = {} /\ 0 \in 0 .. Size(n)
    BY <2>3 DEF Rows
  <2>6. \A i \in Rows(Size(n)) : Table(n)[i] <= Table(n)[i]
    BY <2>3
  <2> DEFINE T == Table(n)
             m == Size(n)
  <2> HIDE DEF T, m
  <2>7. /\ node' \in Nodes /\ at' \in 0 .. m /\ base' \in [Rows(m) -> Nat]
        /\ rows' \subseteq Rows(at') \X Nat
        /\ \A i \in Rows(m) : base'[i] <= T[i]
        /\ \A r \in rows' : base'[r[1]] <= r[2] /\ r[2] <= T[r[1]]
        /\ \A i \in Rows(at') : FALSE
    BY <2>2, <2>3, <2>5, <2>6 DEF T, m
  <2>8. Table(node)' = T /\ Size(node)' = m
    BY <2>4 DEF T, m
  <2>9. QED
    BY <2>7, <2>8 DEF DumpInv
<1>4. CASE ReadCell
  BY <1>4, ReadCellStep
<1>5. CASE (\E p \in Packets : Process(p)) /\ UNCHANGED dumpVars
  <2>1. PICK p \in Packets : Process(p)
    BY <1>5
  <2>2. shell' = shell /\ UNCHANGED <<node, at, rows, base>>
    BY <1>5, <2>1 DEF Process, dumpVars
  <2> SUFFICES ASSUME shell = "scan" PROVE DumpInv'
    BY <2>2, <1>1
  <2>3. Size(node)' = Size(node)
    BY <2>2 DEF Size
  <2>4. /\ node \in Nodes /\ at \in 0 .. Size(node)
        /\ base \in [Rows(Size(node)) -> Nat] /\ rows \subseteq Rows(at) \X Nat
    BY DEF DumpInv
  <2>5. ASSUME node \in Counting, npackets' < CntMod
        PROVE  /\ \A i \in Rows(Size(node)) : base[i] <= Table(node)'[i]
               /\ \A r \in rows : base[r[1]] <= r[2] /\ r[2] <= Table(node)'[r[1]]
               /\ \A i \in Rows(at) :
                    base[i] > 0 /\ (node = "quic_pkt_count" => base[i] >= MinCount)
                       => \E r \in rows : r[1] = i
    <3>1. npackets < CntMod
      BY <2>1, <2>5, CellsGrow
    <3>2. /\ \A i \in Rows(Size(node)) : base[i] <= Table(node)[i]
          /\ \A r \in rows : base[r[1]] <= r[2] /\ r[2] <= Table(node)[r[1]]
          /\ \A i \in Rows(at) :
               base[i] > 0 /\ (node = "quic_pkt_count" => base[i] >= MinCount)
                  => \E r \in rows : r[1] = i
      BY <2>5, <3>1 DEF DumpInv
    <3>3. \A i \in Rows(Size(node)) : Table(node)[i] <= Table(node)'[i]
      BY <2>1, <2>2, <2>5, TableGrows
    <3>4. \A i \in Rows(Size(node)) : /\ base[i] \in Nat /\ Table(node)[i] \in Nat
                                      /\ Table(node)'[i] \in Nat
      <4>1. Table(node) \in [Rows(Size(node)) -> Nat]
        BY <2>4, TableTyped
      <4>2. (Table(node) \in [Rows(Size(node)) -> Nat])'
        <5>1. CASE node = "quic_pkt_count"
          <6>1. Table(node)' = quic_pkt_count' /\ Rows(Size(node))' = Buckets
            BY <2>2, <5>1 DEF Table, Size, Rows, Buckets
          <6>2. quic_pkt_count' \in [Buckets -> Nat]
            BY SizesAssumption DEF TypeOK
          <6>3. QED
            BY <6>1, <6>2
        <5>2. CASE node = "quic_flow_bytes"
          <6>1. Table(node)' = quic_flow_bytes' /\ Rows(Size(node))' = Ctrs
            BY <2>2, <5>2 DEF Table, Size, Rows, Ctrs
          <6>2. quic_flow_bytes' \in [Ctrs -> Nat]
            BY DEF TypeOK
          <6>3. QED
            BY <6>1, <6>2
        <5>3. QED
          BY <2>5, <5>1, <5>2 DEF Counting
      <4>3. QED
        BY <2>3, <2>4, <4>1, <4>2
    <3>5. \A r \in rows : r[1] \in Rows(Size(node)) /\ r[2] \in Nat
      <4>1. Rows(at) \subseteq Rows(Size(node))
        <5>1. Size(node) \in Nat
          BY <2>4, TableTyped
        <5>2. QED
          BY <2>4, <5>1 DEF Rows
      <4>2. QED
        BY <2>4, <4>1
    <3>6. \A i \in Rows(Size(node)) : base[i] <= Table(node)'[i]
      BY <3>2, <3>3, <3>4
    <3>7. \A r \in rows : base[r[1]] <= r[2] /\ r[2] <= Table(node)'[r[1]]
      BY <3>2, <3>3, <3>4, <3>5
    <3>8. QED
      BY <3>2, <3>6, <3>7
  <2>6. QED
    BY <2>2, <2>3, <2>4, <2>5 DEF DumpInv
<1>6. CASE DumpEnd \/ Reset \/ DisplayStart \/ DisplayKill \/ DisplayRefused
  BY <1>1, <1>6 DEF DumpEnd, Reset, ResetPktCount, ResetFlowBytes, ResetLens, Begin, Continue,
              DisplayStart, DisplayKill, DisplayRefused
<1>7. CASE Poll
  <2>1. shell' # "scan"
    BY <1>7 DEF Poll, PollStart, PullSlot, PollWarmUp, PollAgain, PollPrint, PollStop, Begin,
                vars, ShellInv
  <2>2. QED
    BY <1>1, <2>1
<1>8. CASE on_quic_digest \/ (Deliver /\ UNCHANGED dumpVars) \/ UNCHANGED <<allVars, viewVars>>
  <2>1. shell' = shell /\ UNCHANGED <<regVars, npackets, dumpVars>>
    BY <1>8 DEF on_quic_digest, Deliver, allVars, vars
  <2>2. QED
    BY <1>1, <1>2, <2>1
<1>9. QED
  BY <1>3, <1>4, <1>5, <1>6, <1>7, <1>8 DEF ViewNext, Display, DumpNext, Dump

-----------------------------------------------------------------------------
(* poll_quic.py *)

\* A slot's packets and bytes; a packet lets both grow.
LEMMA CellTyped ==
  ASSUME TypeOK
  PROVE  /\ \A c \in Ctrs : Cell(c) \in Pair
         /\ Cells \in [Ctrs -> Pair] /\ \A c \in Ctrs : Cells[c] = Cell(c)
<1>1. \A c \in Ctrs : Cell(c) \in Pair
  BY DEF TypeOK, Cell, Pair
<1>2. QED
  BY <1>1 DEF Cells

LEMMA BelowTransitive ==
  ASSUME NEW x \in Pair, NEW y \in Pair, NEW z \in Pair, Below(x, y), Below(y, z)
  PROVE  Below(x, z)
<1>1. x[1] \in Nat /\ x[2] \in Nat /\ y[1] \in Nat /\ y[2] \in Nat /\ z[1] \in Nat /\ z[2] \in Nat
  BY DEF Pair
<1>2. QED
  BY <1>1 DEF Below

LEMMA BelowSelf == ASSUME NEW x \in Pair PROVE Below(x, x)
BY DEF Pair, Below

\* A dict with one key more, and what d.get finds in it.
LEMMA GetUpdated ==
  ASSUME NEW d, NEW e, NEW x, NEW default
  PROVE  /\ DOMAIN Updated(d, e) = DOMAIN d \cup DOMAIN e
         /\ Get(Updated(d, e), x, default) = IF x \in DOMAIN e THEN e[x] ELSE Get(d, x, default)
BY DEF Updated, Get

LEMMA DictUpdated ==
  ASSUME NEW d, NEW e, Dict(d), Dict(e)
  PROVE  Dict(Updated(d, e))
BY DEF Dict, Updated

LEMMA DictGet ==
  ASSUME NEW d, Dict(d), NEW c
  PROVE  Get(d, c, <<0, 0>>) \in Pair
BY DEF Dict, Get, Pair

\* The pull reads the next slot.
LEMMA PullOne ==
  ASSUME TypeOK, PollTyped, DOMAIN pulled \subseteq Rows(at), PullSlot
  PROVE  /\ PollTyped' /\ at \in Ctrs
         /\ DOMAIN pulled' \subseteq Rows(at + 1)
         /\ Rows(at + 1) = Rows(at) \cup {at}
         /\ \A c \in Rows(at) : Read(c)' = Read(c)
         /\ \A c : c = at => Read(c)' = Cell(c)
<1> DEFINE e == [c \in {at} |-> Cell(c)]
<1>1. /\ at \in 0 .. NCtrs /\ at < NCtrs /\ at' = at + 1 /\ NCtrs \in Nat
      /\ pulled' = (IF Cell(at) = <<0, 0>> THEN pulled ELSE Updated(pulled, e))
      /\ UNCHANGED <<now, prev, moved, marks>>
  BY SizesAssumption DEF PullSlot, PollTyped
<1>2. at \in Ctrs /\ at \notin Rows(at) /\ Rows(at + 1) = Rows(at) \cup {at}
  BY <1>1 DEF Ctrs, Rows
<1>3. Cell(at) \in Pair
  BY <1>2, CellTyped
<1>4. DOMAIN e = {at} /\ e[at] = Cell(at) /\ Dict(e)
  BY <1>2, <1>3 DEF Dict
<1> HIDE DEF e
<1>5. Dict(pulled') /\ DOMAIN pulled' \subseteq Rows(at + 1)
  <2>1. CASE Cell(at) = <<0, 0>>
    BY <1>1, <1>2, <2>1 DEF PollTyped
  <2>2. CASE Cell(at) # <<0, 0>>
    <3>1. pulled' = Updated(pulled, e)
      BY <1>1, <2>2
    <3>2. Dict(pulled')
      BY <1>4, <3>1, DictUpdated DEF PollTyped
    <3>3. DOMAIN pulled' = DOMAIN pulled \cup {at}
      BY <1>4, <3>1, GetUpdated
    <3>4. QED
      BY <1>2, <3>2, <3>3
  <2>3. QED
    BY <2>1, <2>2
<1>6. ASSUME NEW c
      PROVE  /\ c \in Rows(at) => Get(pulled', c, <<0, 0>>) = Get(pulled, c, <<0, 0>>)
             /\ c = at => Get(pulled', c, <<0, 0>>) = Cell(c)
  <2>1. CASE Cell(at) = <<0, 0>>
    BY <1>1, <1>2, <2>1 DEF Get
  <2>2. CASE Cell(at) # <<0, 0>>
    <3>1. pulled' = Updated(pulled, e)
      BY <1>1, <2>2
    <3>2. Get(pulled', c, <<0, 0>>) = IF c \in DOMAIN e THEN e[c] ELSE Get(pulled, c, <<0, 0>>)
      BY <3>1 DEF Get, Updated
    <3>3. QED
      BY <1>2, <1>4, <3>2
  <2>3. QED
    BY <2>1, <2>2
<1>7. PollTyped'
  <2>1. at' \in 0 .. NCtrs
    BY <1>1
  <2>2. QED
    BY <1>1, <1>5, <2>1 DEF PollTyped, Dict
<1>8. QED
  BY <1>2, <1>5, <1>6, <1>7 DEF Read

\* ... and the cells read so far stay between their bounds.
LEMMA PulledBounds ==
  ASSUME TypeOK, PollTyped, PullSlot, NEW lo \in [Ctrs -> Pair], PulledInv(lo),
         \A c \in Ctrs : Below(lo[c], Cell(c))
  PROVE  /\ DOMAIN pulled' \subseteq Rows(at')
         /\ \A c \in Rows(at') : Below(lo[c], Read(c)') /\ Below(Read(c)', Cell(c)')
<1>1. /\ at \in Ctrs /\ DOMAIN pulled' \subseteq Rows(at + 1)
      /\ Rows(at + 1) = Rows(at) \cup {at}
      /\ \A c \in Rows(at) : Read(c)' = Read(c)
      /\ \A c : c = at => Read(c)' = Cell(c)
  BY PullOne DEF PulledInv
<1>2. at' = at + 1 /\ \A c : Cell(c)' = Cell(c)
  BY DEF PullSlot, vars, regVars, Cell
<1>3. ASSUME NEW c \in Rows(at + 1)
      PROVE  Below(lo[c], Read(c)') /\ Below(Read(c)', Cell(c))
  <2>1. CASE c \in Rows(at)
    BY <1>1, <2>1 DEF PulledInv
  <2>2. CASE c = at
    <3>1. Read(c)' = Cell(c) /\ c \in Ctrs
      BY <1>1, <2>2
    <3>2. Below(Cell(c), Cell(c))
      BY <3>1, CellTyped, BelowSelf
    <3>3. QED
      BY <3>1, <3>2
  <2>3. QED
    BY <1>1, <2>1, <2>2
<1>4. DOMAIN pulled' \subseteq Rows(at')
  BY <1>1, <1>2
<1>5. \A c \in Rows(at') : Below(lo[c], Read(c)') /\ Below(Read(c)', Cell(c)')
  BY <1>2, <1>3
<1>6. QED
  BY <1>4, <1>5

\* Nothing of the poll changes and the counter may only have grown.
LEMMA PollFrame ==
  ASSUME TypeOK, TypeOK', PollInv, UNCHANGED <<pollVars, at>>,
         \A c \in Ctrs : Below(Cell(c), Cell(c)')
  PROVE  PollInv'
<1> SUFFICES ASSUME poll # "off" PROVE PollInv'
  BY DEF PollInv, pollVars
<1>1. UNCHANGED <<poll, pulled, prev, last_active, now, visible, moved, marks, at>>
  BY DEF pollVars
<1>2. PollTyped /\ PollTyped'
  BY <1>1 DEF PollInv, PollTyped
<1>3. /\ \A c : Read(c)' = Read(c) /\ Previous(c)' = Previous(c)
      /\ \A c : Dict(pulled) /\ Dict(prev) => Read(c) \in Pair /\ Previous(c) \in Pair
  BY <1>1, DictGet DEF Read, Previous
<1>4. \A c \in Ctrs : Cell(c) \in Pair /\ Cell(c)' \in Pair
  <2>1. \A c \in Ctrs : Cell(c)' \in Pair
    BY DEF TypeOK, Cell, Pair
  <2>2. QED
    BY <2>1, CellTyped
<1>5. \A c \in Ctrs, x \in Pair : Below(x, Cell(c)) => Below(x, Cell(c)')
  BY <1>4, BelowTransitive
<1>6. Rows(at) \subseteq Ctrs
  BY <1>2, SizesAssumption DEF PollTyped, Rows, Ctrs
<1>7. ASSUME NEW lo \in [Ctrs -> Pair], PulledInv(lo)
      PROVE  PulledInv(lo)'
  <2>1. \A c \in Rows(at) : Below(lo[c], Read(c)) /\ Below(Read(c), Cell(c)')
    BY <1>2, <1>3, <1>5, <1>6, <1>7 DEF PulledInv, PollTyped
  <2>2. \A c \in Rows(at') : Below(lo[c], Read(c)') /\ Below(Read(c)', Cell(c)')
    BY <1>1, <1>3, <2>1
  <2>3. DOMAIN pulled' \subseteq Rows(at')
    BY <1>1, <1>7 DEF PulledInv
  <2>4. QED
    BY <2>2, <2>3 DEF PulledInv, Below, Read, Cell
<1>8. ASSUME NEW c \in Ctrs, MovedInv(c) PROVE MovedInv(c)'
  <2>1. marks.ended[c] \in Pair
    BY <1>2 DEF PollTyped
  <2>2. Below(marks.ended[c], Cell(c)')
    BY <1>5, <1>8, <2>1 DEF MovedInv
  <2>3. /\ Below(Sum(marks'.w0[c], moved'[c]), Previous(c)')
        /\ Below(Previous(c)', Sum(marks'.w1[c], moved'[c]))
        /\ Below(Previous(c)', marks'.ended[c])
        /\ Below(marks'.ended[c], Cell(c)')
    BY <1>1, <1>3, <1>8, <2>2 DEF MovedInv
  <2>4. QED
    BY <2>3 DEF MovedInv, Below, Sum, Cell, Previous
<1>9. /\ marks' = marks /\ marks.w0 \in [Ctrs -> Pair] /\ marks.began \in [Ctrs -> Pair]
  BY <1>1, <1>2 DEF PollTyped
<1>10. CASE poll = "warm"
  <2>1. /\ PulledInv(marks.w0) /\ now = 0
        /\ \A c \in Ctrs : moved[c] = <<0, 0>> /\ Below(marks.w0[c], Cell(c))
    BY <1>10 DEF PollInv
  <2> DEFINE lo == marks.w0
  <2>2. lo \in [Ctrs -> Pair] /\ PulledInv(lo)
    BY <1>9, <2>1
  <2>3. /\ DOMAIN pulled' \subseteq Rows(at')
        /\ \A c \in Rows(at') : Below(marks'.w0[c], Read(c)') /\ Below(Read(c)', Cell(c)')
    <3>1. \A c \in Rows(at) : Below(lo[c], Read(c)) /\ Below(Read(c), Cell(c)')
      BY <1>2, <1>3, <1>5, <1>6, <2>2 DEF PulledInv, PollTyped
    <3>2. QED
      BY <1>1, <1>3, <2>1, <3>1 DEF PulledInv
  <2>4. \A c \in Ctrs : moved'[c] = <<0, 0>> /\ Below(marks'.w0[c], Cell(c)')
    BY <1>1, <1>5, <1>9, <2>1
  <2>5. PulledInv(marks.w0)'
    BY <2>3 DEF PulledInv, Below, Read, Cell
  <2>6. QED
    BY <1>1, <1>2, <1>10, <2>1, <2>4, <2>5 DEF PollInv, Below, Cell
<1>11. CASE poll = "pull"
  <2>1. /\ PulledInv(marks.began) /\ \A c \in Ctrs : MovedInv(c)
        /\ \A c \in Ctrs : Below(marks.ended[c], marks.began[c]) /\ Below(marks.began[c], Cell(c))
    BY <1>11 DEF PollInv
  <2>2. /\ DOMAIN pulled' \subseteq Rows(at')
        /\ \A c \in Rows(at') : Below(marks'.began[c], Read(c)') /\ Below(Read(c)', Cell(c)')
    <3>1. \A c \in Rows(at) : Below(marks.began[c], Read(c)) /\ Below(Read(c), Cell(c)')
      BY <1>2, <1>3, <1>5, <1>6, <2>1 DEF PulledInv, PollTyped
    <3>2. QED
      BY <1>1, <1>3, <2>1, <3>1 DEF PulledInv
  <2>3. \A c \in Ctrs : Below(marks'.ended[c], marks'.began[c]) /\ Below(marks'.began[c], Cell(c)')
    BY <1>1, <1>5, <1>9, <2>1
  <2>4. PulledInv(marks.began)'
    BY <2>2 DEF PulledInv, Below, Read, Cell
  <2>5. (\A c \in Ctrs : MovedInv(c))'
    BY <1>8, <2>1
  <2>6. (\A c \in Ctrs : Below(marks.ended[c], marks.began[c]) /\ Below(marks.began[c], Cell(c)))'
    BY <2>3 DEF Below, Cell
  <2>7. QED
    BY <1>1, <1>2, <1>11, <2>4, <2>5, <2>6 DEF PollInv
<1>12. CASE poll = "sleep"
  <2>1. (\A c \in Ctrs : MovedInv(c))'
    BY <1>8, <1>12 DEF PollInv
  <2>2. now > 0 => \A c \in Ctrs : Below(marks'.began[c], Previous(c)')
    BY <1>1, <1>3, <1>12 DEF PollInv
  <2>3. (now > 0 => \A c \in Ctrs : Below(marks.began[c], Previous(c)))'
    BY <1>1, <2>2 DEF Below, Previous
  <2>4. QED
    BY <1>1, <1>2, <1>12, <2>1, <2>3 DEF PollInv
<1>13. CASE poll \notin {"warm", "pull", "sleep"}
  <2>1. (\A c \in Ctrs : MovedInv(c))'
    BY <1>8, <1>13 DEF PollInv
  <2>2. QED
    BY <1>1, <1>2, <1>13, <2>1 DEF PollInv
<1>14. QED
  BY <1>10, <1>11, <1>12, <1>13

\* The warm-up begins.
LEMMA PollStartStep ==
  ASSUME TypeOK, PollStart
  PROVE  PollInv'
<1>1. /\ poll' = "warm" /\ at' = 0 /\ now' = 0 /\ pulled' = <<>> /\ prev' = <<>>
      /\ moved' = [c \in Ctrs |-> <<0, 0>>]
      /\ marks' = [w0 |-> Cells, w1 |-> Cells, began |-> Cells, ended |-> Cells]
      /\ \A c : Cell(c)' = Cell(c)
  BY DEF PollStart, regVars, Cell
<1>2. Cells \in [Ctrs -> Pair] /\ \A c \in Ctrs : Cells[c] = Cell(c) /\ Below(Cell(c), Cell(c))
  BY CellTyped, BelowSelf
<1>3. Rows(0) = {} /\ DOMAIN <<>> = {} /\ 0 \in 0 .. NCtrs
  BY SizesAssumption DEF Rows
<1>4. PollTyped'
  <2>1. Dict(pulled') /\ Dict(prev')
    BY <1>1, <1>3 DEF Dict
  <2>2. moved' \in [Ctrs -> Pair]
    BY <1>1 DEF Pair
  <2>3. QED
    BY <1>1, <1>2, <1>3, <2>1, <2>2 DEF PollTyped, Dict
<1>5. PulledInv(marks.w0)'
  BY <1>1, <1>3 DEF PulledInv
<1>6. \A c \in Ctrs : moved'[c] = <<0, 0>> /\ Below(marks'.w0[c], Cell(c)')
  BY <1>1, <1>2
<1>7. (\A c \in Ctrs : moved[c] = <<0, 0>> /\ Below(marks.w0[c], Cell(c)))'
  BY <1>6 DEF Below, Cell
<1>8. QED
  BY <1>1, <1>4, <1>5, <1>7 DEF PollInv

\* A slot is read, in the warm-up or in a poll.
LEMMA PullSlotStep ==
  ASSUME TypeOK, PollInv, PullSlot
  PROVE  PollInv'
<1>1. /\ poll \in {"warm", "pull"} /\ UNCHANGED <<poll, prev, now, moved, marks>>
      /\ UNCHANGED <<quic_flow_pkts, quic_flow_bytes>> /\ \A c : Cell(c)' = Cell(c)
  BY DEF PullSlot, vars, regVars, Cell
<1>2. /\ PollTyped /\ marks.w0 \in [Ctrs -> Pair] /\ marks.began \in [Ctrs -> Pair]
  BY <1>1 DEF PollInv, PollTyped
<1>3. DOMAIN pulled \subseteq Rows(at)
  BY <1>1 DEF PollInv, PulledInv
<1>4. PollTyped'
  BY <1>2, <1>3, PullOne
<1>5. CASE poll = "warm"
  <2> DEFINE lo == marks.w0
  <2>1. /\ PulledInv(lo) /\ now = 0
        /\ \A c \in Ctrs : moved[c] = <<0, 0>> /\ Below(marks.w0[c], Cell(c))
    BY <1>5 DEF PollInv
  <2>2. /\ DOMAIN pulled' \subseteq Rows(at')
        /\ \A c \in Rows(at') : Below(marks.w0[c], Read(c)') /\ Below(Read(c)', Cell(c)')
    <3>1. lo \in [Ctrs -> Pair] /\ \A c \in Ctrs : Below(lo[c], Cell(c))
      BY <1>2, <2>1
    <3>2. QED
      BY <1>2, <2>1, <3>1, PulledBounds
  <2>3. PulledInv(marks.w0)'
    BY <1>1, <2>2 DEF PulledInv, Below, Read, Cell
  <2>4. (\A c \in Ctrs : moved[c] = <<0, 0>> /\ Below(marks.w0[c], Cell(c)))'
    BY <1>1, <2>1 DEF Below, Cell
  <2>5. QED
    BY <1>1, <1>4, <1>5, <2>1, <2>3, <2>4 DEF PollInv
<1>6. CASE poll = "pull"
  <2> DEFINE lo == marks.began
  <2>1. /\ PulledInv(lo) /\ \A c \in Ctrs : MovedInv(c)
        /\ \A c \in Ctrs : Below(marks.ended[c], marks.began[c]) /\ Below(marks.began[c], Cell(c))
    BY <1>6 DEF PollInv
  <2>2. /\ DOMAIN pulled' \subseteq Rows(at')
        /\ \A c \in Rows(at') : Below(marks.began[c], Read(c)') /\ Below(Read(c)', Cell(c)')
    <3>1. lo \in [Ctrs -> Pair] /\ \A c \in Ctrs : Below(lo[c], Cell(c))
      BY <1>2, <2>1
    <3>2. QED
      BY <1>2, <2>1, <3>1, PulledBounds
  <2>3. PulledInv(marks.began)'
    BY <1>1, <2>2 DEF PulledInv, Below, Read, Cell
  <2>4. (\A c \in Ctrs : Below(marks.ended[c], marks.began[c]) /\ Below(marks.began[c], Cell(c)))'
    BY <1>1, <2>1 DEF Below, Cell
  <2>5. (\A c \in Ctrs : MovedInv(c))'
    BY <1>1, <2>1 DEF MovedInv, Below, Sum, Previous, Cell
  <2>6. QED
    BY <1>1, <1>4, <1>6, <2>3, <2>4, <2>5 DEF PollInv
<1>7. QED
  BY <1>1, <1>5, <1>6

\* Between two polls every slot has been read, and lies between its bounds.
LEMMA AllRead ==
  ASSUME PollTyped, at = NCtrs, NEW lo, PulledInv(lo)
  PROVE  /\ Dict(pulled) /\ DOMAIN pulled \subseteq Ctrs
         /\ \A c \in Ctrs : /\ Read(c) \in Pair
                            /\ Below(lo[c], Read(c)) /\ Below(Read(c), Cell(c))
<1>1. Rows(at) = Ctrs
  BY DEF Rows, Ctrs
<1>2. Dict(pulled) /\ \A c : Read(c) \in Pair
  BY DictGet DEF PollTyped, Read
<1>3. QED
  BY <1>1, <1>2 DEF PulledInv

\* The warm-up ends: what it read is what the first deltas are taken from.
LEMMA PollWarmUpStep ==
  ASSUME TypeOK, PollInv, PollWarmUp
  PROVE  PollInv'
<1>1. /\ poll = "warm" /\ at = NCtrs /\ poll' = "sleep" /\ prev' = pulled
      /\ UNCHANGED <<at, now, pulled, moved>> /\ \A c : Cell(c)' = Cell(c)
      /\ marks' = [marks EXCEPT !.w1 = Cells, !.ended = Cells]
  BY DEF PollWarmUp, vars, regVars, dumpVars, Cell
<1>2. /\ PollTyped /\ PulledInv(marks.w0) /\ now = 0
      /\ \A c \in Ctrs : moved[c] = <<0, 0>> /\ marks.w0[c] \in Pair
  BY <1>1 DEF PollInv, PollTyped
<1>3. Cells \in [Ctrs -> Pair] /\ \A c \in Ctrs : Cells[c] = Cell(c) /\ Cell(c) \in Pair
  BY CellTyped
<1>4. /\ Dict(pulled)
      /\ \A c \in Ctrs : /\ Read(c) \in Pair
                         /\ Below(marks.w0[c], Read(c)) /\ Below(Read(c), Cell(c))
  BY <1>1, <1>2, AllRead
<1>5. /\ marks'.w0 = marks.w0 /\ marks'.w1 = Cells /\ marks'.ended = Cells
      /\ marks' \in [w0 : [Ctrs -> Pair], w1 : [Ctrs -> Pair],
                     began : [Ctrs -> Pair], ended : [Ctrs -> Pair]]
  BY <1>1, <1>2, <1>3 DEF PollTyped
<1>6. PollTyped'
  BY <1>1, <1>2, <1>4, <1>5 DEF PollTyped, Dict
<1>7. ASSUME NEW c \in Ctrs PROVE MovedInv(c)'
  <2>1. Previous(c)' = Read(c)
    BY <1>1 DEF Previous, Read
  <2>2. Sum(marks'.w0[c], moved'[c]) = marks.w0[c] /\ Sum(marks'.w1[c], moved'[c]) = Cell(c)
    <3>1. marks'.w0[c] \in Pair /\ marks'.w1[c] = Cell(c) /\ moved'[c] = <<0, 0>>
          /\ marks'.w0[c] = marks.w0[c] /\ Cell(c) \in Pair
      BY <1>1, <1>2, <1>3, <1>5
    <3>2. \A x \in Pair : Sum(x, <<0, 0>>) = x
      BY DEF Sum, Pair
    <3>3. QED
      BY <3>1, <3>2
  <2>3. /\ Below(Sum(marks'.w0[c], moved'[c]), Previous(c)')
        /\ Below(Previous(c)', Sum(marks'.w1[c], moved'[c]))
        /\ Below(Previous(c)', marks'.ended[c])
        /\ Below(marks'.ended[c], Cell(c)')
    BY <1>1, <1>3, <1>4, <1>5, <2>1, <2>2, BelowSelf
  <2>4. QED
    BY <2>3 DEF MovedInv, Below, Sum, Cell, Previous
<1>8. (\A c \in Ctrs : MovedInv(c))'
  BY <1>7
<1>9. QED
  BY <1>1, <1>2, <1>6, <1>8 DEF PollInv

\* A poll begins.
LEMMA PollAgainStep ==
  ASSUME TypeOK, PollInv, PollAgain
  PROVE  PollInv'
<1>1. /\ poll = "sleep" /\ poll' = "pull" /\ at' = 0 /\ now' = now + 1 /\ pulled' = <<>>
      /\ UNCHANGED <<prev, moved>> /\ \A c : Cell(c)' = Cell(c)
      /\ marks' = [marks EXCEPT !.began = Cells]
  BY DEF PollAgain, vars, regVars, Cell
<1>2. PollTyped /\ \A c \in Ctrs : MovedInv(c)
  BY <1>1 DEF PollInv
<1>3. Cells \in [Ctrs -> Pair] /\ \A c \in Ctrs : Cells[c] = Cell(c) /\ Below(Cell(c), Cell(c))
  BY CellTyped, BelowSelf
<1>4. /\ marks'.w0 = marks.w0 /\ marks'.w1 = marks.w1 /\ marks'.ended = marks.ended
      /\ marks'.began = Cells
      /\ marks' \in [w0 : [Ctrs -> Pair], w1 : [Ctrs -> Pair],
                     began : [Ctrs -> Pair], ended : [Ctrs -> Pair]]
  BY <1>1, <1>2, <1>3 DEF PollTyped
<1>5. Rows(0) = {} /\ DOMAIN <<>> = {} /\ 0 \in 0 .. NCtrs
  BY SizesAssumption DEF Rows
<1>6. PollTyped'
  <2>1. Dict(pulled')
    BY <1>1, <1>5 DEF Dict
  <2>2. QED
    BY <1>1, <1>2, <1>4, <1>5, <2>1 DEF PollTyped, Dict
<1>7. PulledInv(marks.began)'
  BY <1>1, <1>5 DEF PulledInv
<1>8. (\A c \in Ctrs : MovedInv(c))'
  <2>1. \A c \in Ctrs : /\ Below(Sum(marks'.w0[c], moved'[c]), Previous(c)')
                        /\ Below(Previous(c)', Sum(marks'.w1[c], moved'[c]))
                        /\ Below(Previous(c)', marks'.ended[c])
                        /\ Below(marks'.ended[c], Cell(c)')
    BY <1>1, <1>2, <1>4 DEF MovedInv, Previous
  <2>2. QED
    BY <2>1 DEF MovedInv, Below, Sum, Cell, Previous
<1>9. \A c \in Ctrs : Below(marks'.ended[c], marks'.began[c]) /\ Below(marks'.began[c], Cell(c)')
  BY <1>1, <1>2, <1>3, <1>4 DEF MovedInv
<1>10. (\A c \in Ctrs : Below(marks.ended[c], marks.began[c]) /\ Below(marks.began[c], Cell(c)))'
  BY <1>9 DEF Below, Cell
<1>11. QED
  BY <1>1, <1>6, <1>7, <1>8, <1>10 DEF PollInv

\* A poll ends.  The slot's entry is now the value just read (a slot the pull
\* left out reads zero, as it did before), and what was printed for it has grown
\* by the difference.
LEMMA Printed ==
  ASSUME TypeOK, PollInv, PollPrint, NEW c \in Ctrs
  PROVE  /\ Previous(c)' = Read(c)
         /\ moved'[c] = <<moved[c][1] + (Read(c)[1] - Previous(c)[1]),
                          moved[c][2] + (Read(c)[2] - Previous(c)[2])>>
         /\ Previous(c) \in Pair /\ Read(c) \in Pair /\ moved[c] \in Pair
         /\ Below(marks.began[c], Read(c)) /\ Below(Read(c), Cell(c))
         /\ Below(Previous(c), marks.ended[c]) /\ Below(marks.ended[c], marks.began[c])
         /\ marks.began[c] \in Pair /\ marks.ended[c] \in Pair
<1>1. poll = "pull" /\ at = NCtrs /\ prev' = Updated(prev, pulled)
  BY DEF PollPrint, Stored
<1>2. /\ PollTyped /\ PulledInv(marks.began) /\ MovedInv(c)
      /\ Below(marks.ended[c], marks.began[c])
  BY <1>1 DEF PollInv
<1>3. /\ marks.began[c] \in Pair /\ marks.ended[c] \in Pair /\ moved[c] \in Pair
      /\ Dict(prev) /\ Dict(pulled)
  BY <1>2 DEF PollTyped
<1>4. /\ Read(c) \in Pair /\ Below(marks.began[c], Read(c)) /\ Below(Read(c), Cell(c))
  BY <1>1, <1>2, AllRead
<1>5. Previous(c) \in Pair /\ Below(Previous(c), marks.ended[c])
  BY <1>2, <1>3, DictGet DEF Previous, MovedInv
<1>6. Below(Previous(c), Read(c))
  <2>1. Below(Previous(c), marks.began[c])
    BY <1>2, <1>3, <1>5, BelowTransitive
  <2>2. QED
    BY <1>3, <1>4, <1>5, <2>1, BelowTransitive
<1> DEFINE P == Previous(c)
           R == Read(c)
           M == moved[c]
<1>7. /\ P[1] \in Nat /\ P[2] \in Nat /\ P = <<P[1], P[2]>>
      /\ R[1] \in Nat /\ R[2] \in Nat /\ R = <<R[1], R[2]>>
      /\ M[1] \in Nat /\ M[2] \in Nat /\ M = <<M[1], M[2]>>
      /\ P[1] <= R[1] /\ P[2] <= R[2]
  BY <1>3, <1>4, <1>5, <1>6 DEF Pair, Below
<1>8. c \notin DOMAIN pulled => R = <<0, 0>>
  BY DEF Read, Get
<1>9. c \in DOMAIN pulled => R = pulled[c] /\ Delta(c) = <<R[1] - P[1], R[2] - P[2]>>
  BY DEF Read, Get, Delta
<1>10. moved'[c] = IF c \in DOMAIN pulled /\ (Delta(c)[1] > 0 \/ Delta(c)[2] > 0)
                   THEN <<M[1] + Delta(c)[1], M[2] + Delta(c)[2]>> ELSE M
  BY DEF PollPrint
<1>11. Previous(c)' = IF c \in DOMAIN pulled THEN pulled[c] ELSE P
  BY <1>1 DEF Previous, Get, Updated
<1> HIDE DEF P, R, M
<1>12. CASE c \notin DOMAIN pulled
  <2>1. R[1] = 0 /\ R[2] = 0
    BY <1>8, <1>12
  <2>2. P[1] = R[1] /\ P[2] = R[2]
    BY <1>7, <2>1
  <2>3. P = R /\ M = <<M[1] + (R[1] - P[1]), M[2] + (R[2] - P[2])>>
    BY <1>7, <2>2
  <2>4. Previous(c)' = R /\ moved'[c] = <<M[1] + (R[1] - P[1]), M[2] + (R[2] - P[2])>>
    BY <1>10, <1>11, <1>12, <2>3
  <2>5. QED
    BY <1>2, <1>3, <1>4, <1>5, <2>4 DEF P, R, M
<1>13. CASE c \in DOMAIN pulled
  <2>1. Previous(c)' = R
    BY <1>9, <1>11, <1>13
  <2>2. moved'[c] = IF R[1] - P[1] > 0 \/ R[2] - P[2] > 0
                    THEN <<M[1] + (R[1] - P[1]), M[2] + (R[2] - P[2])>> ELSE M
    BY <1>9, <1>10, <1>13
  <2>3. ~(R[1] - P[1] > 0 \/ R[2] - P[2] > 0) => M = <<M[1] + (R[1] - P[1]), M[2] + (R[2] - P[2])>>
    BY <1>7
  <2>4. moved'[c] = <<M[1] + (R[1] - P[1]), M[2] + (R[2] - P[2])>>
    BY <2>2, <2>3
  <2>5. QED
    BY <1>2, <1>3, <1>4, <1>5, <2>1, <2>4 DEF P, R, M
<1>14. QED
  BY <1>12, <1>13

LEMMA PollPrintStep ==
  ASSUME TypeOK, PollInv, PollPrint
  PROVE  PollInv'
<1>1. /\ poll = "pull" /\ at = NCtrs /\ poll' = "sleep" /\ prev' = Updated(prev, pulled)
      /\ UNCHANGED <<at, now, pulled>> /\ \A c : Cell(c)' = Cell(c)
      /\ marks' = [marks EXCEPT !.ended = Cells]
      /\ DOMAIN moved' = Ctrs /\ moved' = [c \in Ctrs |-> moved'[c]]
  BY DEF PollPrint, Stored, vars, regVars, dumpVars, Cell
<1>2. PollTyped /\ \A c \in Ctrs : MovedInv(c)
  BY <1>1 DEF PollInv
<1>3. Cells \in [Ctrs -> Pair] /\ \A c \in Ctrs : /\ Cells[c] = Cell(c) /\ Cell(c) \in Pair
                                                  /\ Below(Cell(c), Cell(c))
  BY CellTyped, BelowSelf
<1>4. /\ marks'.w0 = marks.w0 /\ marks'.w1 = marks.w1 /\ marks'.ended = Cells
      /\ marks'.began = marks.began
      /\ marks' \in [w0 : [Ctrs -> Pair], w1 : [Ctrs -> Pair],
                     began : [Ctrs -> Pair], ended : [Ctrs -> Pair]]
      /\ marks.w0 \in [Ctrs -> Pair] /\ marks.w1 \in [Ctrs -> Pair]
  BY <1>1, <1>2, <1>3 DEF PollTyped
<1>5. ASSUME NEW c \in Ctrs
      PROVE  /\ moved'[c] \in Pair /\ MovedInv(c)'
             /\ Below(marks'.began[c], Previous(c)')
  <2> DEFINE P == Previous(c)
             R == Read(c)
             M == moved[c]
             u == marks.w0[c]
             v == marks.w1[c]
             N == moved'[c]
             Q == Previous(c)'
  <2>1. /\ Q = R /\ N = <<M[1] + (R[1] - P[1]), M[2] + (R[2] - P[2])>>
        /\ P \in Pair /\ R \in Pair /\ M \in Pair
        /\ Below(marks.began[c], R) /\ Below(R, Cell(c))
        /\ Below(P, marks.ended[c]) /\ Below(marks.ended[c], marks.began[c])
        /\ marks.began[c] \in Pair /\ marks.ended[c] \in Pair
    BY Printed
  <2>2. Below(Sum(u, M), P) /\ Below(P, Sum(v, M)) /\ u \in Pair /\ v \in Pair
    BY <1>2, <1>4 DEF MovedInv
  <2>3. Below(P, R)
    <3>1. Below(P, marks.began[c])
      BY <2>1, BelowTransitive
    <3>2. QED
      BY <2>1, <3>1, BelowTransitive
  <2> HIDE DEF P, R, M, u, v, N, Q
  <2>4. /\ P[1] \in Nat /\ P[2] \in Nat /\ R[1] \in Nat /\ R[2] \in Nat
        /\ M[1] \in Nat /\ M[2] \in Nat /\ u[1] \in Nat /\ u[2] \in Nat
        /\ v[1] \in Nat /\ v[2] \in Nat
        /\ P[1] <= R[1] /\ P[2] <= R[2]
        /\ u[1] + M[1] <= P[1] /\ u[2] + M[2] <= P[2]
        /\ P[1] <= v[1] + M[1] /\ P[2] <= v[2] + M[2]
    BY <2>1, <2>2, <2>3 DEF Pair, Below, Sum
  <2>5. /\ N[1] = M[1] + (R[1] - P[1]) /\ N[2] = M[2] + (R[2] - P[2])
        /\ N = <<N[1], N[2]>>
    BY <2>1
  <2>6. N[1] \in Nat /\ N[2] \in Nat
    BY <2>4, <2>5
  <2>7. N \in Pair
    BY <2>5, <2>6 DEF Pair
  <2>8. Below(Sum(u, N), R) /\ Below(R, Sum(v, N))
    <3>1. u[1] + N[1] <= R[1] /\ u[2] + N[2] <= R[2] /\ R[1] <= v[1] + N[1] /\ R[2] <= v[2] + N[2]
      BY <2>4, <2>5
    <3>2. QED
      BY <3>1 DEF Below, Sum
  <2>9. /\ Below(Sum(marks'.w0[c], moved'[c]), Previous(c)')
        /\ Below(Previous(c)', Sum(marks'.w1[c], moved'[c]))
        /\ Below(Previous(c)', marks'.ended[c])
        /\ Below(marks'.ended[c], Cell(c)')
    BY <1>1, <1>3, <1>4, <2>1, <2>8 DEF u, v, N, Q
  <2>10. MovedInv(c)'
    BY <2>9 DEF MovedInv, Below, Sum, Cell, Previous
  <2>11. Below(marks'.began[c], Previous(c)')
    BY <1>4, <2>1 DEF Q
  <2>12. QED
    BY <2>7, <2>10, <2>11 DEF N
<1>6. PollTyped'
  <2>1. Dict(prev')
    BY <1>1, <1>2, DictUpdated DEF PollTyped
  <2>2. moved' \in [Ctrs -> Pair]
    BY <1>1, <1>5
  <2>3. QED
    BY <1>1, <1>2, <1>4, <2>1, <2>2 DEF PollTyped, Dict
<1>7. (\A c \in Ctrs : MovedInv(c))'
  BY <1>5
<1>8. (\A c \in Ctrs : Below(marks.began[c], Previous(c)))'
  BY <1>5 DEF Below, Previous
<1>9. QED
  BY <1>1, <1>6, <1>7, <1>8 DEF PollInv

LEMMA PollStep ==
  ASSUME TypeOK, TypeOK', CellsBounded, ShellInv, PollInv, [ViewNext]_<<allVars, viewVars>>
  PROVE  PollInv'
<1>1. CASE poll' = "off"
  BY <1>1 DEF PollInv
<1>2. CASE /\ UNCHANGED <<pollVars, at>> /\ UNCHANGED <<quic_flow_pkts, quic_flow_bytes>>
  <2>1. \A c \in Ctrs : Cell(c)' = Cell(c)
    BY <1>2 DEF Cell
  <2>2. \A c \in Ctrs : Below(Cell(c), Cell(c)')
    BY <2>1, CellTyped, BelowSelf
  <2>3. QED
    BY <1>2, <2>2, PollFrame
<1>3. CASE (\E p \in Packets : Process(p)) /\ UNCHANGED dumpVars /\ UNCHANGED viewVars
  <2>1. PICK p \in Packets : Process(p)
    BY <1>3
  <2>2. \A c \in Ctrs : /\ quic_flow_pkts[c] <= quic_flow_pkts'[c]
                        /\ quic_flow_bytes[c] <= quic_flow_bytes'[c]
    BY <2>1, CellsGrow
  <2>3. \A c \in Ctrs : Below(Cell(c), Cell(c)')
    BY <2>2 DEF Below, Cell
  <2>4. UNCHANGED <<pollVars, at>>
    BY <1>3 DEF dumpVars, viewVars
  <2>5. QED
    BY <2>3, <2>4, PollFrame
<1>4. CASE Poll
  <2>1. PollStop => poll' = "off"
    BY DEF PollStop
  <2>2. QED
    BY <1>1, <1>4, <2>1, PollStartStep, PullSlotStep, PollWarmUpStep, PollAgainStep, PollPrintStep
    DEF Poll
<1>5. CASE Display \/ (Deliver /\ UNCHANGED dumpVars /\ UNCHANGED viewVars)
           \/ UNCHANGED <<allVars, viewVars>>
  <2>1. UNCHANGED <<pollVars, at, quic_flow_pkts, quic_flow_bytes>>
    BY <1>5 DEF Display, DisplayStart, DisplayRefused, on_quic_digest, DisplayKill, Deliver,
                allVars, vars, regVars, dumpVars, viewVars
  <2>2. QED
    BY <1>2, <2>1
<1>6. CASE (Dump \/ Reset) /\ UNCHANGED viewVars
  <2>1. poll = "off"
    BY <1>6 DEF Dump, DumpBegin, ReadCell, DumpEnd, Reset, ResetPktCount, ResetFlowBytes,
                ResetLens, Begin, Continue, ShellInv
  <2>2. poll' = poll
    BY <1>6 DEF viewVars, pollVars
  <2>3. QED
    BY <1>1, <2>1, <2>2
<1>7. QED
  BY <1>3, <1>4, <1>5, <1>6 DEF ViewNext, DumpNext

-----------------------------------------------------------------------------
(* display_quic.py *)

\* The line of a long header's digest shows the connection ID, cut to the field.
LEMMA LongLineShows ==
  ASSUME NEW p \in Packets, Quic(p), p.form = "long"
  PROVE  truncate_dcid(p.dcid, parsed_len(p)) = truncate_dcid(p.cid, Len(p.cid))
<1>1. Long(p) /\ parsed_len(p) = p.dcid_len /\ p.dcid_len = Len(p.cid) /\ Shows(p.dcid, p.cid)
  <2>1. Long(p) /\ p.dcid_len = Len(p.cid) /\ Shows(p.dcid, p.cid)
    BY WireAssumption DEF Long
  <2>2. parsed_len(p) = p.dcid_len
    BY <2>1 DEF parsed_len, Long, Short
  <2>3. QED
    BY <2>1, <2>2
<1> DEFINE m == IF Len(p.cid) > DcidBytes THEN DcidBytes ELSE Len(p.cid)
           f == p.dcid
           g == p.cid
<1>2. f \in Dcid /\ g \in Seq(Byte) /\ Len(g) \in Nat
  BY PacketFields
<1>3. m \in Nat /\ m <= DcidBytes /\ m <= Len(g)
  BY <1>2 DEF DcidBytes
<1>4. \A i \in 1 .. m : f[i] = g[i] /\ g[i] \in Byte
  <2>1. \A i \in 1 .. m : i \in 1 .. DcidBytes /\ i \in 1 .. Len(g) /\ i <= Len(g)
    BY <1>2, <1>3 DEF DcidBytes
  <2>2. \A i \in 1 .. m : f[i] = g[i]
    BY <1>1, <2>1 DEF Shows
  <2>3. \A i \in 1 .. m : g[i] \in Byte
    BY <1>2, <2>1, ElementOfSeq
  <2>4. QED
    BY <2>2, <2>3
<1>5. truncate_dcid(f, parsed_len(p)) = SubSeq(f, 1, m) /\ truncate_dcid(g, Len(g)) = SubSeq(g, 1, m)
  BY <1>1 DEF truncate_dcid
<1> HIDE DEF m, f, g
<1>6. /\ SubSeq(f, 1, m) \in Seq(Byte) /\ Len(SubSeq(f, 1, m)) = m
      /\ \A i \in 1 .. m : SubSeq(f, 1, m)[i] = f[i]
  BY <1>3, <1>4, SubSeqProperties
<1>7. /\ SubSeq(g, 1, m) \in Seq(Byte) /\ Len(SubSeq(g, 1, m)) = m
      /\ \A i \in 1 .. m : SubSeq(g, 1, m)[i] = g[i]
  BY <1>3, <1>4, SubSeqProperties
<1>8. SubSeq(f, 1, m) = SubSeq(g, 1, m)
  BY <1>4, <1>6, <1>7, SeqEqual
<1>9. QED
  BY <1>5, <1>8 DEF f, g

\* The line of a short header's digest shows the field.
LEMMA LineShows ==
  ASSUME NEW p \in Packets, Quic(p)
  PROVE  truncate_dcid(p.dcid, parsed_len(p)) = ShownFor(p)
<1>1. CASE p.form = "long"
  BY <1>1, LongLineShows DEF ShownFor
<1>2. CASE p.form # "long"
  <2>1. Short(p) /\ ~Long(p) /\ p.dcid \in Dcid
    BY <1>2, PacketFields, PacketsAssumption, Zenon DEF IsQuicForm, IsQuicDcid, Long, Short
  <2>2. parsed_len(p) = DcidBytes
    BY <2>1 DEF parsed_len
  <2> DEFINE f == p.dcid
  <2>3. truncate_dcid(f, DcidBytes) = SubSeq(f, 1, DcidBytes)
    BY DEF truncate_dcid, DcidBytes
  <2>4. \A i \in 1 .. DcidBytes : f[i] \in Byte
    BY <2>1 DEF Dcid
  <2>5. f = [i \in 1 .. DcidBytes |-> f[i]]
    BY <2>1 DEF Dcid
  <2> HIDE DEF f
  <2>6. SubSeq(f, 1, DcidBytes) = f
    BY <2>5 DEF DcidBytes
  <2>7. QED
    BY <1>2, <2>2, <2>3, <2>6 DEF ShownFor, f
<1>3. QED
  BY <1>1, <1>2

\* A packet is digested exactly when its bucket starts counting.
LEMMA BucketStarts ==
  ASSUME TypeOK, CellsBounded, NEW p \in Packets, Process(p), npackets' < CntMod
  PROVE  \/ CountingNow' = CountingNow /\ digests' = digests
         \/ \E b \in Buckets \ CountingNow : /\ CountingNow' = CountingNow \cup {b}
                                             /\ digests' = Append(digests, quic_digest(p))
<1>1. CASE ~Quic(p)
  BY <1>1 DEF Process, CountingNow
<1>2. CASE Quic(p)
  <2> DEFINE b == flow_id(p)
             v == quic_pkt_count[b]
  <2>1. b \in Buckets /\ npackets' = npackets + 1 /\ npackets \in Nat /\ CntMod \in Nat
    BY BucketExists, SizesAssumption DEF Process, TypeOK
  <2>2. v \in Nat /\ v <= npackets /\ \A x \in Buckets : quic_pkt_count[x] \in Nat
    BY <2>1, SizesAssumption DEF TypeOK, CellsBounded
  <2>3. /\ quic_pkt_count' = [quic_pkt_count EXCEPT ![b] = count_quic(b)]
        /\ digests' = IF count_quic(b) = 1 THEN Append(digests, quic_digest(p)) ELSE digests
    BY <1>2 DEF Process, Count
  <2>4. count_quic(b) = v + 1
    <3>1. v + 1 \in Nat /\ v + 1 < CntMod
      BY <2>1, <2>2
    <3>2. QED
      BY <2>1, <3>1 DEF count_quic
  <2> HIDE DEF b
  <2>5. \A x \in Buckets : quic_pkt_count'[x] = IF x = b THEN v + 1 ELSE quic_pkt_count[x]
    BY <2>1, <2>3, <2>4 DEF TypeOK
  <2>6. CountingNow' = CountingNow \cup {b}
    BY <2>1, <2>2, <2>5 DEF CountingNow
  <2>7. CASE v = 0
    <3>1. b \in Buckets \ CountingNow
      BY <2>1, <2>7 DEF CountingNow
    <3>2. digests' = Append(digests, quic_digest(p))
      BY <2>3, <2>4, <2>7
    <3>3. QED
      BY <2>6, <3>1, <3>2
  <2>8. CASE v # 0
    <3>1. CountingNow' = CountingNow
      BY <2>1, <2>2, <2>6, <2>8 DEF CountingNow
    <3>2. digests' = digests
      BY <2>2, <2>3, <2>4, <2>8
    <3>3. QED
      BY <3>1, <3>2
  <2>9. QED
    BY <2>7, <2>8
<1>3. QED
  BY <1>1, <1>2

LEMMA CountingFinite == \A S : IsFiniteSet(CountingNow \ S) /\ Cardinality(CountingNow \ S) \in Nat
<1>1. IsFiniteSet(Buckets)
  BY FS_Interval, SizesAssumption DEF Buckets
<1>2. \A S : (CountingNow \ S) \in SUBSET Buckets
  BY DEF CountingNow
<1>3. QED
  BY <1>1, <1>2, FS_Subset, FS_CardinalityType

\* A packet under the display: a bucket that starts counting is a digest to come.
LEMMA DisplayProcess ==
  ASSUME TypeOK, CellsBounded, DisplayInv, shell = "display",
         NEW p \in Packets, Process(p), UNCHANGED viewVars
  PROVE  DisplayInv'
<1>1. UNCHANGED <<lines, since, shell>>
  BY DEF Process, viewVars, dispVars
<1>2. /\ since.waiting \in Nat /\ lines \in Seq(Lines) /\ since.counting \subseteq Buckets
      /\ \A i \in 1 .. Len(lines) : LineOfPacket(lines[i])
  BY DEF DisplayInv
<1>3. ASSUME npackets' < CntMod
      PROVE  /\ since.counting \subseteq CountingNow'
             /\ Len(lines) + Len(digests')
                  = since.waiting + Cardinality(CountingNow' \ since.counting)
  <2> DEFINE S == since.counting
             K == CountingNow
  <2>1. /\ S \subseteq K /\ Len(lines) + Len(digests) = since.waiting + Cardinality(K \ S)
    BY <1>3, CellsGrow DEF DisplayInv
  <2>2. digests \in Seq(Digest) /\ quic_digest(p) \in Digest /\ Len(lines) \in Nat
    BY <1>2, PacketFields DEF TypeOK
  <2>3. CASE CountingNow' = K /\ digests' = digests
    BY <2>1, <2>3
  <2>4. CASE \E b \in Buckets \ K : /\ CountingNow' = K \cup {b}
                                    /\ digests' = Append(digests, quic_digest(p))
    <3>1. PICK b \in Buckets \ K : /\ CountingNow' = K \cup {b}
                                   /\ digests' = Append(digests, quic_digest(p))
      BY <2>4
    <3>2. Len(digests') = Len(digests) + 1 /\ Len(digests) \in Nat
      <4> DEFINE d == quic_digest(p)
      <4>1. d \in Digest /\ digests' = Append(digests, d)
        BY <2>2, <3>1
      <4> HIDE DEF d
      <4>2. QED
        BY <2>2, <4>1
    <3>3. IsFiniteSet(K \ S) /\ Cardinality(K \ S) \in Nat
      BY CountingFinite
    <3> HIDE DEF S, K
    <3>4. CountingNow' \ S = (K \ S) \cup {b} /\ b \notin K \ S
      BY <2>1, <3>1
    <3>5. Cardinality(CountingNow' \ S) = Cardinality(K \ S) + 1
      BY <3>3, <3>4, FS_AddElement
    <3>6. S \subseteq CountingNow'
      BY <2>1, <3>1
    <3>7. Len(lines) + Len(digests') = since.waiting + Cardinality(CountingNow' \ S)
      <4>1. since.waiting \in Nat /\ Len(lines) \in Nat
        BY <1>2, <2>2
      <4>2. Len(lines) + Len(digests) = since.waiting + Cardinality(K \ S)
        BY <2>1
      <4>3. QED
        BY <3>2, <3>3, <3>5, <4>1, <4>2
    <3>8. QED
      BY <3>6, <3>7 DEF S
  <2>5. QED
    BY <1>3, <2>3, <2>4, BucketStarts
<1>4. QED
  BY <1>1, <1>2, <1>3 DEF DisplayInv

\* The callback prints the oldest digest.
LEMMA DisplayDigest ==
  ASSUME TypeOK, DigestInv, DisplayInv, shell = "display", on_quic_digest
  PROVE  DisplayInv'
<1> DEFINE d == Head(digests)
           l == LineOf(d)
<1>1. /\ UNCHANGED <<since, shell, npackets, quic_pkt_count>> /\ digests # <<>>
      /\ digests' = Tail(digests) /\ lines' = Append(lines, l)
  BY DEF on_quic_digest, regVars, LineOf
<1>2. /\ since.waiting \in Nat /\ lines \in Seq(Lines) /\ since.counting \subseteq Buckets
      /\ \A i \in 1 .. Len(lines) : LineOfPacket(lines[i])
      /\ npackets < CntMod =>
           /\ since.counting \subseteq CountingNow
           /\ Len(lines) + Len(digests) = since.waiting + Cardinality(CountingNow \ since.counting)
  BY DEF DisplayInv
<1>3. digests \in Seq(Digest) /\ d \in Digest /\ d = digests[1] /\ 1 \in 1 .. Len(digests)
      /\ Len(digests) \in Nat /\ Len(digests') = Len(digests) - 1
  BY <1>1 DEF TypeOK
<1>4. l \in Lines
  BY <1>3 DEF Lines
<1>5. LineOfPacket(l)
  <2>1. PICK p \in Packets : Quic(p) /\ d = quic_digest(p)
    BY <1>3 DEF DigestInv
  <2>2. l.form = p.form /\ l.dcid = truncate_dcid(p.dcid, parsed_len(p))
    BY <2>1 DEF LineOf, quic_digest
  <2>3. l.dcid = ShownFor(p)
    BY <2>1, <2>2, LineShows
  <2>4. QED
    BY <2>1, <2>2, <2>3 DEF LineOfPacket
<1>6. CountingNow' = CountingNow
  BY <1>1 DEF CountingNow
<1> HIDE DEF l, d
<1>7. /\ lines' \in Seq(Lines) /\ Len(lines) \in Nat /\ Len(lines') = Len(lines) + 1
      /\ lines'[Len(lines) + 1] = l
      /\ \A i \in 1 .. Len(lines) : lines'[i] = lines[i]
  BY <1>1, <1>2, <1>4
<1>8. \A i \in 1 .. Len(lines') : i \in 1 .. Len(lines) \/ i = Len(lines) + 1
  BY <1>7
<1>9. \A i \in 1 .. Len(lines') : LineOfPacket(lines'[i])
  BY <1>2, <1>5, <1>7, <1>8
<1>10. Len(lines') + Len(digests') = Len(lines) + Len(digests)
  BY <1>3, <1>7
<1>11. QED
  BY <1>1, <1>2, <1>6, <1>7, <1>9, <1>10 DEF DisplayInv

\* The display starts: nothing printed, nothing counting that was not before.
LEMMA DisplayBegin ==
  ASSUME TypeOK, DisplayStart
  PROVE  DisplayInv'
<1>1. /\ lines' = <<>> /\ since' = [counting |-> CountingNow, waiting |-> Len(digests)]
      /\ digests' = digests /\ CountingNow' = CountingNow /\ digests \in Seq(Digest)
  BY DEF DisplayStart, CountingNow, regVars, TypeOK
<1>2. since'.counting = CountingNow /\ since'.waiting = Len(digests) /\ Len(digests) \in Nat
  BY <1>1
<1>3. lines' \in Seq(Lines) /\ Len(lines') = 0
  BY <1>1
<1>4. Cardinality(CountingNow \ CountingNow) = 0
  <2>1. CountingNow \ CountingNow = {}
    OBVIOUS
  <2>2. QED
    BY <2>1, FS_EmptySet
<1>5. CountingNow \subseteq Buckets
  BY DEF CountingNow
<1>6. \A i \in 1 .. Len(lines') : FALSE
  BY <1>3
<1>7. QED
  BY <1>1, <1>2, <1>3, <1>4, <1>5, <1>6 DEF DisplayInv

LEMMA DisplayStep ==
  ASSUME TypeOK, CellsBounded, ShellInv, DigestInv, DisplayInv, [ViewNext]_<<allVars, viewVars>>
  PROVE  DisplayInv'
<1>1. CASE shell' # "display"
  BY <1>1 DEF DisplayInv
<1>2. CASE DisplayStart
  BY <1>2, DisplayBegin
<1>3. CASE on_quic_digest
  <2>1. shell' = shell
    BY <1>3 DEF on_quic_digest
  <2>2. QED
    BY <1>1, <1>3, <2>1, DisplayDigest
<1>4. CASE (\E p \in Packets : Process(p)) /\ UNCHANGED viewVars
  <2>1. shell' = shell
    BY <1>4 DEF Process
  <2>2. QED
    BY <1>1, <1>4, <2>1, DisplayProcess
<1>5. CASE UNCHANGED <<allVars, viewVars>>
  <2>1. UNCHANGED <<lines, since, digests, quic_pkt_count, npackets, shell>>
    BY <1>5 DEF allVars, vars, regVars, dgstVars, viewVars, dispVars
  <2>2. CountingNow' = CountingNow
    BY <2>1 DEF CountingNow
  <2>3. QED
    BY <2>1, <2>2 DEF DisplayInv
<1>6. CASE DisplayRefused \/ DisplayKill
  BY <1>1, <1>6 DEF DisplayRefused, DisplayKill
<1>7. CASE Deliver
  BY <1>1, <1>7 DEF Deliver, ShellInv
<1>8. CASE Dump \/ Reset
  BY <1>1, <1>8 DEF Dump, DumpBegin, ReadCell, DumpEnd, Reset, ResetPktCount, ResetFlowBytes,
              ResetLens, Begin, Continue, vars
<1>9. CASE Poll
  <2>1. shell' # "display"
    BY <1>9 DEF Poll, PollStart, PullSlot, PollWarmUp, PollAgain, PollPrint, PollStop, Begin,
                vars, ShellInv
  <2>2. QED
    BY <1>1, <2>1
<1>10. QED
  BY <1>2, <1>3, <1>4, <1>5, <1>6, <1>7, <1>8, <1>9 DEF ViewNext, Display, DumpNext

-----------------------------------------------------------------------------
(* Theorems *)

\* The inductive invariant of the switch with its dumps and its live views.
THEOREM ViewInvariant == ViewSpec => []ViewInv
<1>1. ViewInit => ViewInv
  <2> SUFFICES ASSUME ViewInit PROVE ViewInv
    OBVIOUS
  <2>1. TypeOK
    BY InitType DEF ViewInit, DumpInit
  <2>2. CellsBounded
    BY SizesAssumption DEF ViewInit, DumpInit, Init, CellsBounded
  <2>3. ShellInv /\ DumpInv /\ PollInv /\ DisplayInv
    BY DEF ViewInit, DumpInit, Init, ShellInv, DumpInv, PollInv, DisplayInv
  <2>4. DigestInv
    BY DEF ViewInit, DumpInit, Init, DigestInv
  <2>5. QED
    BY <2>1, <2>2, <2>3, <2>4 DEF ViewInv
<1>2. ViewInv /\ [ViewNext]_<<allVars, viewVars>> => ViewInv'
  BY ShellStep, DigestStep, SwitchStep, DumpStep, PollStep, DisplayStep DEF ViewInv
<1>3. QED
  BY <1>1, <1>2, PTL DEF ViewSpec

\* A dump taken under traffic is honest, whatever the table's size: every count
\* it shows lies between the value at its beginning and now, and no bucket that
\* had counted enough by its beginning is missing.
THEOREM DumpInvariant == ViewSpec => []DumpBrackets
<1>1. ViewInv => DumpBrackets
  BY DEF ViewInv, DumpInv, DumpBrackets, Rows
<1>2. QED
  BY <1>1, ViewInvariant, PTL

\* The deltas poll_quic.py prints add up, however many polls there are and
\* however traffic tears each of them.
THEOREM PollInvariant == ViewSpec => []PollAddsUp
<1>1. ViewInv => PollAddsUp
  <2> SUFFICES ASSUME ViewInv, poll = "sleep", now > 0, NEW c \in Ctrs
               PROVE  Between(Minus(marks.began[c], marks.w1[c]), moved[c],
                              Minus(Cell(c), marks.w0[c]))
    BY DEF PollAddsUp
  <2> DEFINE P == Previous(c)
             M == moved[c]
             u == marks.w0[c]
             v == marks.w1[c]
             B == marks.began[c]
             E == marks.ended[c]
             X == Cell(c)
  <2>1. PollTyped /\ MovedInv(c) /\ Below(B, P) /\ X \in Pair
    BY CellTyped DEF ViewInv, PollInv
  <2>2. M \in Pair /\ u \in Pair /\ v \in Pair /\ B \in Pair /\ E \in Pair /\ P \in Pair
    BY <2>1, DictGet DEF PollTyped, Previous
  <2>3. Below(Sum(u, M), P) /\ Below(P, Sum(v, M)) /\ Below(P, E) /\ Below(E, X)
    BY <2>1 DEF MovedInv
  <2> HIDE DEF P, M, u, v, B, E, X
  <2>4. ASSUME NEW i \in 1 .. 2
        PROVE  /\ M[i] \in Nat /\ u[i] \in Nat /\ v[i] \in Nat /\ B[i] \in Nat
               /\ E[i] \in Nat /\ P[i] \in Nat /\ X[i] \in Nat
               /\ u[i] + M[i] <= P[i] /\ P[i] <= v[i] + M[i] /\ P[i] <= E[i]
               /\ E[i] <= X[i] /\ B[i] <= P[i]
    <3>1. i = 1 \/ i = 2
      OBVIOUS
    <3>2. QED
      BY <2>1, <2>2, <2>3, <3>1 DEF Pair, Below, Sum
  <2>5. ASSUME NEW i \in 1 .. 2
        PROVE  Minus(B, v)[i] = B[i] - v[i] /\ Minus(X, u)[i] = X[i] - u[i]
    BY DEF Minus
  <2>6. Between(Minus(B, v), M, Minus(X, u))
    BY <2>4, <2>5 DEF Between
  <2>7. QED
    BY <2>6 DEF B, v, M, X, u
<1>2. QED
  BY <1>1, ViewInvariant, PTL

\* One line for each bucket that starts counting while the display runs and for
\* each digest it found waiting; a long header's line shows the connection ID and no
\* byte behind it, a short header's the whole field.
THEOREM DisplayInvariant == ViewSpec => []DisplayLines
<1>1. ViewInv => DisplayLines
  <2>1. ASSUME ViewInv, shell = "display" PROVE DOMAIN lines = 1 .. Len(lines)
    BY <2>1, LenProperties DEF ViewInv, DisplayInv
  <2>2. QED
    BY <2>1 DEF ViewInv, DisplayInv, DisplayLines, LineOfPacket, CountingNow
<1>2. QED
  BY <1>1, ViewInvariant, PTL

\* A slot that counted between two pulls is in the table the second one prints.
THEOREM MovedAlways == ViewSpec => MovedIsVisible
<1>1. ViewInv /\ PollPrint =>
        \A c \in Ctrs : marks.began[c] # marks.ended[c] => c \in visible'
  <2> SUFFICES ASSUME ViewInv, PollPrint, NEW c \in Ctrs, marks.began[c] # marks.ended[c]
               PROVE  c \in visible'
    OBVIOUS
  <2> DEFINE P == Previous(c)
             R == Read(c)
             B == marks.began[c]
             E == marks.ended[c]
  <2>1. /\ P \in Pair /\ R \in Pair /\ B \in Pair /\ E \in Pair
        /\ Below(B, R) /\ Below(P, E) /\ Below(E, B)
    BY Printed DEF ViewInv
  <2>2. c \notin DOMAIN pulled => R = <<0, 0>>
    BY DEF Read, Get
  <2>3. c \in DOMAIN pulled => Delta(c) = <<R[1] - P[1], R[2] - P[2]>>
    BY DEF Read, Get, Delta
  <2>4. B # E
    OBVIOUS
  <2>5. now \in Nat
    BY DEF ViewInv, PollInv, PollTyped, PollPrint
  <2> HIDE DEF P, R, B, E
  <2>6. /\ P[1] \in Nat /\ P[2] \in Nat /\ R[1] \in Nat /\ R[2] \in Nat
        /\ B[1] \in Nat /\ B[2] \in Nat /\ E[1] \in Nat /\ E[2] \in Nat
        /\ B = <<B[1], B[2]>> /\ E = <<E[1], E[2]>>
        /\ B[1] <= R[1] /\ B[2] <= R[2] /\ P[1] <= E[1] /\ P[2] <= E[2]
        /\ E[1] <= B[1] /\ E[2] <= B[2]
    BY <2>1 DEF Pair, Below
  <2>7. R[1] - P[1] > 0 \/ R[2] - P[2] > 0
    <3>1. B[1] # E[1] \/ B[2] # E[2]
      BY <2>4, <2>6
    <3>2. QED
      BY <2>6, <3>1
  <2>8. c \in DOMAIN pulled
    <3>1. ~(R[1] = 0 /\ R[2] = 0)
      BY <2>6, <2>7
    <3>2. QED
      BY <2>2, <3>1
  <2> DEFINE active == {x \in DOMAIN pulled : Delta(x)[1] > 0 \/ Delta(x)[2] > 0}
  <2>9. c \in active
    BY <2>3, <2>7, <2>8
  <2>10. last_active' = Updated(last_active, [x \in active |-> now])
    BY DEF PollPrint, Activity
  <2>11. visible' = {x \in DOMAIN pulled \cap DOMAIN last_active' :
                       now - last_active'[x] < IdlePolls}
    BY DEF PollPrint
  <2> HIDE DEF active
  <2>12. c \in DOMAIN last_active' /\ last_active'[c] = now
    BY <2>9, <2>10 DEF Updated
  <2>13. now - now < IdlePolls
    BY <2>5, ViewAssumption
  <2>14. QED
    BY <2>8, <2>11, <2>12, <2>13
<1>2. ViewInv /\ [ViewNext]_<<allVars, viewVars>> =>
        [PollPrint => \A c \in Ctrs : marks.began[c] # marks.ended[c] => c \in visible']_
          <<allVars, viewVars>>
  BY <1>1
<1>3. QED
  BY <1>2, ViewInvariant, PTL DEF ViewSpec, MovedIsVisible

-----------------------------------------------------------------------------
(* The two phases in closed form *)

\* A record that teaches a length, and the last of a set of records.
Teaches(p) == Sees(p) /\ p.form = "long" /\ p.ltype = 2
Last(J) == CHOOSE j \in J : \A k \in J : k <= j

\* What records a + 1 .. b of c teach: of each 4-tuple its last Handshake.
Lessons(c, a, b) == {j \in a + 1 .. b : Teaches(c[j])}
LessonsOn(c, a, b, t) == {j \in Lessons(c, a, b) : flow_tuple(c[j]) = t}
LearnedIn(c, a, b) ==
  [t \in {flow_tuple(c[j]) : j \in Lessons(c, a, b)} |-> c[Last(LessonsOn(c, a, b, t))].dcid_len]

\* The last of a finite set of records is one of them.
LEMMA LastIs ==
  ASSUME NEW J, IsFiniteSet(J), J \subseteq Int, J # {}
  PROVE  Last(J) \in J /\ \A k \in J : k <= Last(J)
<1>1. \E j \in J : \A k \in J : k <= j
  BY GreatestExists
<1>2. QED
  BY <1>1 DEF Last

\* The Handshakes of a stretch are finitely many.
LEMMA LessonsFinite ==
  ASSUME NEW c, NEW a \in Int, NEW b \in Int, NEW t
  PROVE  /\ LessonsOn(c, a, b, t) \subseteq Int
         /\ IsFiniteSet(LessonsOn(c, a, b, t))
<1>1. a + 1 \in Int
  OBVIOUS
<1>2. IsFiniteSet(a + 1 .. b)
  BY <1>1, FS_Interval
<1>3. LessonsOn(c, a, b, t) \subseteq a + 1 .. b
  BY DEF LessonsOn, Lessons
<1>4. a + 1 .. b \subseteq Int
  OBVIOUS
<1>5. QED
  BY <1>2, <1>3, <1>4, FS_Subset

\* Nothing is learned from no records.
LEMMA LearnedNone ==
  ASSUME NEW c, NEW a \in Int
  PROVE  LearnedIn(c, a, a) = NoLengths
<1>1. a + 1 .. a = {}
  OBVIOUS
<1>2. Lessons(c, a, a) = {}
  BY <1>1 DEF Lessons
<1>3. {flow_tuple(c[j]) : j \in Lessons(c, a, a)} = {}
  BY <1>2
<1>4. ASSUME NEW f, NEW S, S = {}, f = [t \in S |-> c[Last(LessonsOn(c, a, a, t))].dcid_len] PROVE f = <<>>
  BY <1>4
<1>5. QED
  BY <1>3, <1>4 DEF LearnedIn, NoLengths

\* Learning from two adjacent stretches is dict.update of what each teaches.
LEMMA LearnedJoin ==
  ASSUME NEW c, NEW a \in Int, NEW m \in Int, NEW b \in Int, a <= m, m <= b
  PROVE  LearnedIn(c, a, b) = Update(LearnedIn(c, a, m), LearnedIn(c, m, b))
<1> DEFINE L(x, y, t) == LessonsOn(c, x, y, t)
           D(x, y) == {flow_tuple(c[j]) : j \in Lessons(c, x, y)}
<1>1. Lessons(c, a, b) = Lessons(c, a, m) \cup Lessons(c, m, b)
  <2>1. \A j \in Int : (j \in a + 1 .. b) <=> (j \in a + 1 .. m \/ j \in m + 1 .. b)
    OBVIOUS
  <2>2. a + 1 .. b \subseteq Int /\ a + 1 .. m \subseteq Int /\ m + 1 .. b \subseteq Int
    OBVIOUS
  <2>3. QED
    BY <2>1, <2>2 DEF Lessons
<1>2. D(a, b) = D(a, m) \cup D(m, b)
  BY <1>1
<1>3. \A t : L(a, b, t) = L(a, m, t) \cup L(m, b, t)
  BY <1>1 DEF LessonsOn
<1>4. \A x, y : \A t \in D(x, y) : L(x, y, t) # {}
  BY DEF LessonsOn
<1>5. \A x, y, t : t \notin D(x, y) => L(x, y, t) = {}
  BY DEF LessonsOn
<1>6. \A x, y \in Int : \A t : L(x, y, t) \subseteq Int /\ IsFiniteSet(L(x, y, t))
  BY LessonsFinite
<1>7. \A t : \A j \in L(a, m, t), k \in L(m, b, t) : j < k
  BY DEF LessonsOn, Lessons
<1>8. \A t \in D(m, b) : Last(L(a, b, t)) = Last(L(m, b, t))
  <2> SUFFICES ASSUME NEW t \in D(m, b) PROVE Last(L(a, b, t)) = Last(L(m, b, t))
    OBVIOUS
  <2> DEFINE x == Last(L(a, b, t))
             y == Last(L(m, b, t))
  <2>1. L(m, b, t) # {} /\ L(a, b, t) # {}
    BY <1>3, <1>4
  <2> HIDE DEF L, D
  <2>2. x \in L(a, b, t) /\ \A k \in L(a, b, t) : k <= x
    BY <2>1, <1>6, LastIs
  <2>3. y \in L(m, b, t) /\ \A k \in L(m, b, t) : k <= y
    BY <2>1, <1>6, LastIs
  <2>4. y \in L(a, b, t) /\ y \in Int /\ x \in Int
    BY <2>2, <2>3, <1>3, <1>6
  <2>5. y <= x
    BY <2>2, <2>4
  <2>6. x \in L(m, b, t)
    BY <2>2, <2>3, <2>4, <2>5, <1>3, <1>7
  <2>7. QED
    BY <2>3, <2>4, <2>5, <2>6
<1>9. \A t \in D(a, m) \ D(m, b) : L(a, b, t) = L(a, m, t)
  BY <1>3, <1>5
<1> HIDE DEF L, D
<1> DEFINE F(x, y) == [t \in D(x, y) |-> c[Last(L(x, y, t))].dcid_len]
<1>10. F(a, b) = Update(F(a, m), F(m, b))
  <2>1. DOMAIN F(a, m) = D(a, m) /\ DOMAIN F(m, b) = D(m, b) /\ DOMAIN F(a, b) = D(a, b)
    OBVIOUS
  <2>2. \A t \in D(a, b) : F(a, b)[t] = IF t \in D(m, b) THEN F(m, b)[t] ELSE F(a, m)[t]
    BY <1>2, <1>8, <1>9
  <2>3. F(a, b) = [t \in D(a, b) |-> F(a, b)[t]]
    OBVIOUS
  <2> HIDE DEF F
  <2>4. Update(F(a, m), F(m, b)) = [t \in D(a, b) |-> IF t \in D(m, b) THEN F(m, b)[t] ELSE F(a, m)[t]]
    BY <2>1, <1>2 DEF Update
  <2>5. QED
    BY <2>2, <2>3, <2>4
<1>11. LearnedIn(c, a, b) = F(a, b) /\ LearnedIn(c, a, m) = F(a, m) /\ LearnedIn(c, m, b) = F(m, b)
  BY DEF LearnedIn, L, D
<1>12. QED
  BY <1>10, <1>11

\* One more record: what _learn_phase does with it.
LEMMA LearnedNext ==
  ASSUME NEW c, NEW a \in Int, NEW b \in Int, a < b
  PROVE  LearnedIn(c, a, b) =
           IF Teaches(c[b]) THEN Update(LearnedIn(c, a, b - 1), [t \in {flow_tuple(c[b])} |-> c[b].dcid_len])
                            ELSE LearnedIn(c, a, b - 1)
<1> DEFINE m == b - 1
           one == LearnedIn(c, m, b)
<1>1. m \in Int /\ a <= m /\ m <= b /\ m + 1 .. b = {b}
  OBVIOUS
<1>2. LearnedIn(c, a, b) = Update(LearnedIn(c, a, m), one)
  BY <1>1, LearnedJoin
<1>3. CASE Teaches(c[b])
  <2>1. Lessons(c, m, b) = {b}
    BY <1>1, <1>3 DEF Lessons
  <2>2. {flow_tuple(c[j]) : j \in Lessons(c, m, b)} = {flow_tuple(c[b])}
    BY <2>1
  <2>3. LessonsOn(c, m, b, flow_tuple(c[b])) = {b}
    BY <2>1 DEF LessonsOn
  <2>4. Last({b}) = b
    BY DEF Last
  <2>5. one = [t \in {flow_tuple(c[b])} |-> c[b].dcid_len]
    BY <2>2, <2>3, <2>4 DEF LearnedIn
  <2>6. QED
    BY <1>2, <1>3, <2>5
<1>4. CASE ~Teaches(c[b])
  <2>1. Lessons(c, m, b) = {}
    BY <1>1, <1>4 DEF Lessons
  <2>2. DOMAIN one = {}
    BY <2>1 DEF LearnedIn
  <2> DEFINE f == LearnedIn(c, a, m)
  <2>3. f = [x \in DOMAIN f |-> f[x]]
    BY DEF LearnedIn
  <2> HIDE DEF f, one
  <2>4. Update(f, one) = f
    BY <2>2, <2>3 DEF Update
  <2>5. QED
    BY <1>2, <1>4, <2>4 DEF f, one
<1>5. QED
  BY <1>3, <1>4

\* The recursive function of LearnPhase.
IsLearning(recs, m) ==
  m = [i \in 0 .. Len(recs) |->
         IF i = 0 THEN NoLengths
         ELSE IF Sees(recs[i]) /\ recs[i].form = "long" /\ recs[i].ltype = 2
              THEN Update(m[i - 1], [t \in {flow_tuple(recs[i])} |-> recs[i].dcid_len])
              ELSE m[i - 1]]

\* _learn_phase is the last value of its recursive function.
LEMMA LearnUnfold ==
  ASSUME NEW recs
  PROVE  LearnPhase(recs) = (CHOOSE m : IsLearning(recs, m))[Len(recs)]
BY DEF IsLearning, LearnPhase

\* Two records sequences agree where the phases look.
Stretch(recs, c, a, b) ==
  /\ Len(recs) = b - a
  /\ \A i \in 1 .. b - a : recs[i] = c[a + i]

\* _learn_phase on records a + 1 .. b: the last Handshake of each 4-tuple.
LEMMA LearnPhaseIs ==
  ASSUME NEW recs, NEW c, NEW a \in Int, NEW b \in Int, a <= b, Stretch(recs, c, a, b)
  PROVE  LearnPhase(recs) = LearnedIn(c, a, b)
<1> DEFINE n == b - a
           val(i) == LearnedIn(c, a, a + i)
           w == [i \in 0 .. n |-> val(i)]
<1>1. n \in Nat /\ Len(recs) = n /\ \A i \in 1 .. n : recs[i] = c[a + i]
  BY DEF Stretch
<1>2. val(0) = NoLengths
  BY LearnedNone
<1>3. ASSUME NEW i \in 1 .. n
      PROVE  val(i) = IF Teaches(recs[i])
                      THEN Update(val(i - 1), [t \in {flow_tuple(recs[i])} |-> recs[i].dcid_len])
                      ELSE val(i - 1)
  <2> DEFINE e == a + i
  <2>1. e \in Int /\ a < e /\ e - 1 = a + (i - 1) /\ recs[i] = c[e]
    BY <1>1
  <2>2. val(i) = LearnedIn(c, a, e) /\ val(i - 1) = LearnedIn(c, a, e - 1)
    BY <2>1
  <2> HIDE DEF e, val
  <2>3. QED
    BY <2>1, <2>2, LearnedNext
<1> HIDE DEF val, n
<1>4. \A i \in 1 .. n : i - 1 \in 0 .. n /\ i # 0
  BY <1>1
<1>5. \A i \in 0 .. n : i # 0 => i \in 1 .. n
  BY <1>1
<1>6. IsLearning(recs, w)
  <2>1. \A i \in 0 .. n :
          w[i] = IF i = 0 THEN NoLengths
                 ELSE IF Teaches(recs[i])
                      THEN Update(w[i - 1], [t \in {flow_tuple(recs[i])} |-> recs[i].dcid_len])
                      ELSE w[i - 1]
    <3> SUFFICES ASSUME NEW i \in 0 .. n
                 PROVE  w[i] = IF i = 0 THEN NoLengths
                   ELSE IF Teaches(recs[i])
                      THEN Update(w[i - 1], [t \in {flow_tuple(recs[i])} |-> recs[i].dcid_len])
                      ELSE w[i - 1]
      OBVIOUS
    <3>1. w[i] = val(i)
      OBVIOUS
    <3>2. CASE i = 0
      BY <3>1, <3>2, <1>2
    <3>3. CASE i # 0
      <4>1. i \in 1 .. n /\ w[i - 1] = val(i - 1)
        BY <3>3, <1>4, <1>5
      <4> HIDE DEF w
      <4>2. QED
        BY <3>1, <3>3, <4>1, <1>3
    <3>4. QED
      BY <3>2, <3>3
  <2>2. w = [i \in 0 .. n |-> w[i]]
    OBVIOUS
  <2> HIDE DEF w
  <2>3. QED
    BY <2>1, <2>2, <1>1 DEF IsLearning, Teaches
<1> DEFINE m == CHOOSE g : IsLearning(recs, g)
<1>7. IsLearning(recs, m)
  BY <1>6
<1> HIDE DEF m
<1>8. /\ m[0] = NoLengths
      /\ \A i \in 1 .. n : m[i] = IF Teaches(recs[i])
                      THEN Update(m[i - 1], [t \in {flow_tuple(recs[i])} |-> recs[i].dcid_len])
                      ELSE m[i - 1]
  <2> DEFINE h == [i \in 0 .. n |->
         IF i = 0 THEN NoLengths
         ELSE IF Teaches(recs[i])
              THEN Update(m[i - 1], [t \in {flow_tuple(recs[i])} |-> recs[i].dcid_len])
              ELSE m[i - 1]]
  <2>1. m = h
    BY <1>1, <1>7 DEF IsLearning, Teaches
  <2>2. 0 \in 0 .. n /\ \A i \in 1 .. n : i \in 0 .. n /\ i # 0
    BY <1>1
  <2>3. h[0] = NoLengths
    BY <2>2
  <2>4. ASSUME NEW i \in 1 .. n
        PROVE  h[i] = IF Teaches(recs[i])
              THEN Update(m[i - 1], [t \in {flow_tuple(recs[i])} |-> recs[i].dcid_len])
              ELSE m[i - 1]
    BY <2>2
  <2> HIDE DEF h
  <2>5. QED
    BY <2>1, <2>3, <2>4
<1> DEFINE G == {i \in 0 .. n : m[i] = val(i)}
<1>9. 0 \in G
  BY <1>1, <1>2, <1>8
<1>10. ASSUME NEW i \in 1 .. n, i - 1 \in G PROVE i \in G
  <2>1. m[i - 1] = val(i - 1)
    BY <1>10
  <2>2. m[i] = val(i)
    BY <2>1, <1>3, <1>8
  <2>3. i \in 0 .. n
    BY <1>1
  <2>4. QED
    BY <2>2, <2>3
<1>11. 0 .. n \subseteq G
  <2> HIDE DEF G
  <2>1. QED
    BY <1>1, <1>9, <1>10, IntervalInduction
<1>12. m[n] = val(n)
  <2>1. n \in 0 .. n
    BY <1>1
  <2>2. QED
    BY <2>1, <1>11
<1>13. LearnPhase(recs) = m[n]
  BY <1>1, LearnUnfold DEF m
<1>14. a + n = b
  BY DEF n
<1>15. QED
  BY <1>12, <1>13, <1>14 DEF val

\* What records a + 1 .. b of c count, when the lengths are lens.
Seen(c, a, b) == {j \in a + 1 .. b : Sees(c[j])}
BucketOf(c, lens, j) == bucket(ReadDcid(c[j], lens))
Hits(c, lens, a, b, bk) == {j \in Seen(c, a, b) : BucketOf(c, lens, j) = bk}
PairsIn(c, lens, a, b) == {<<ReadDcid(c[j], lens), BucketOf(c, lens, j)>> : j \in Seen(c, a, b)}
CountedIn(c, lens, a, b) ==
  [pkts |-> [bk \in Buckets |-> Cardinality(Hits(c, lens, a, b, bk))],
   pairs |-> PairsIn(c, lens, a, b)]

\* A bucket is hit a finite number of times.
LEMMA HitsFinite ==
  ASSUME NEW c, NEW lens, NEW a \in Int, NEW b \in Int, NEW bk
  PROVE  /\ IsFiniteSet(Hits(c, lens, a, b, bk))
         /\ Cardinality(Hits(c, lens, a, b, bk)) \in Nat
<1>1. a + 1 \in Int
  OBVIOUS
<1>2. IsFiniteSet(a + 1 .. b)
  BY <1>1, FS_Interval
<1>3. Hits(c, lens, a, b, bk) \subseteq a + 1 .. b
  BY DEF Hits, Seen
<1>4. QED
  BY <1>2, <1>3, FS_Subset, FS_CardinalityType

\* Adjacent stretches: every record is in one of them.
LEMMA SeenJoin ==
  ASSUME NEW c, NEW a \in Int, NEW m \in Int, NEW b \in Int, a <= m, m <= b
  PROVE  /\ Seen(c, a, b) = Seen(c, a, m) \cup Seen(c, m, b)
         /\ Seen(c, a, m) \cap Seen(c, m, b) = {}
<1>1. \A j \in Int : (j \in a + 1 .. b) <=> (j \in a + 1 .. m \/ j \in m + 1 .. b)
  OBVIOUS
<1>2. \A j \in Int : ~(j \in a + 1 .. m /\ j \in m + 1 .. b)
  OBVIOUS
<1>3. a + 1 .. b \subseteq Int /\ a + 1 .. m \subseteq Int /\ m + 1 .. b \subseteq Int
  OBVIOUS
<1>4. QED
  BY <1>1, <1>2, <1>3 DEF Seen

\* The packets of a bucket add up over adjacent stretches,
LEMMA HitsJoin ==
  ASSUME NEW c, NEW lens, NEW a \in Int, NEW m \in Int, NEW b \in Int, a <= m, m <= b, NEW bk
  PROVE  Cardinality(Hits(c, lens, a, b, bk))
           = Cardinality(Hits(c, lens, a, m, bk)) + Cardinality(Hits(c, lens, m, b, bk))
<1> DEFINE S == Hits(c, lens, a, m, bk)
           T == Hits(c, lens, m, b, bk)
<1>0. /\ Seen(c, a, b) = Seen(c, a, m) \cup Seen(c, m, b)
      /\ Seen(c, a, m) \cap Seen(c, m, b) = {}
  BY SeenJoin
<1>1. Hits(c, lens, a, b, bk) = S \cup T /\ S \cap T = {}
  BY <1>0 DEF Hits
<1>2. /\ IsFiniteSet(S) /\ IsFiniteSet(T)
      /\ Cardinality(S) \in Nat /\ Cardinality(T) \in Nat
  BY HitsFinite
<1> HIDE DEF S, T
<1>3. Cardinality(S \cup T) = Cardinality(S) + Cardinality(T) - Cardinality(S \cap T)
  BY <1>2, FS_Union
<1>4. Cardinality(S \cap T) = 0
  BY <1>1, FS_EmptySet
<1>5. Cardinality(S \cup T) = Cardinality(S) + Cardinality(T)
  BY <1>2, <1>3, <1>4
<1>6. QED
  BY <1>1, <1>5 DEF S, T

\* and the (ID, bucket) pairs are those of either.
LEMMA PairsJoin ==
  ASSUME NEW c, NEW lens, NEW a \in Int, NEW m \in Int, NEW b \in Int, a <= m, m <= b
  PROVE  PairsIn(c, lens, a, b) = PairsIn(c, lens, a, m) \cup PairsIn(c, lens, m, b)
BY SeenJoin DEF PairsIn

\* No records, nothing counted.
LEMMA CountedNone ==
  ASSUME NEW c, NEW lens, NEW a \in Int
  PROVE  /\ \A bk : Cardinality(Hits(c, lens, a, a, bk)) = 0
         /\ PairsIn(c, lens, a, a) = {}
         /\ CountedIn(c, lens, a, a) = NewAcc
<1>1. a + 1 .. a = {}
  OBVIOUS
<1>2. Seen(c, a, a) = {}
  BY <1>1 DEF Seen
<1>3. \A bk : Hits(c, lens, a, a, bk) = {}
  BY <1>2 DEF Hits
<1>4. \A bk : Cardinality(Hits(c, lens, a, a, bk)) = 0
  BY <1>3, FS_EmptySet
<1>5. PairsIn(c, lens, a, a) = {}
  BY <1>2 DEF PairsIn
<1>6. [bk \in Buckets |-> Cardinality(Hits(c, lens, a, a, bk))] = [bk \in Buckets |-> 0]
  BY <1>4
<1>7. QED
  BY <1>4, <1>5, <1>6 DEF CountedIn, NewAcc

\* One more record: what _bucket_phase does with it.
LEMMA CountedNext ==
  ASSUME NEW c, NEW lens, NEW a \in Int, NEW b \in Int, a < b
  PROVE  CountedIn(c, lens, a, b) =
           IF Sees(c[b]) THEN Fold(CountedIn(c, lens, a, b - 1), ReadDcid(c[b], lens))
                         ELSE CountedIn(c, lens, a, b - 1)
<1> DEFINE m == b - 1
           d == ReadDcid(c[b], lens)
           N(x, y, bk) == Cardinality(Hits(c, lens, x, y, bk))
           P(x, y) == PairsIn(c, lens, x, y)
<1>0. m \in Int /\ a <= m /\ m <= b
  OBVIOUS
<1>1. m \in Int /\ m + 1 .. b = {b}
  OBVIOUS
<1>2. /\ \A bk : N(a, b, bk) = N(a, m, bk) + N(m, b, bk)
      /\ P(a, b) = P(a, m) \cup P(m, b)
  <2> HIDE DEF m
  <2>1. \A bk : N(a, b, bk) = N(a, m, bk) + N(m, b, bk)
    BY <1>0, HitsJoin
  <2>2. P(a, b) = P(a, m) \cup P(m, b)
    BY <1>0, PairsJoin
  <2>3. QED
    BY <2>1, <2>2
<1>3. \A bk : N(a, m, bk) \in Nat
  BY <1>1, HitsFinite
<1>4. /\ CountedIn(c, lens, a, b) = [pkts |-> [bk \in Buckets |-> N(a, b, bk)], pairs |-> P(a, b)]
      /\ CountedIn(c, lens, a, m) = [pkts |-> [bk \in Buckets |-> N(a, m, bk)], pairs |-> P(a, m)]
  BY DEF CountedIn
<1>5. CASE Sees(c[b])
  <2>1. Seen(c, m, b) = {b}
    BY <1>1, <1>5 DEF Seen
  <2>2. \A bk : Hits(c, lens, m, b, bk) = IF bucket(d) = bk THEN {b} ELSE {}
    BY <2>1 DEF Hits, BucketOf
  <2>3. \A bk : N(m, b, bk) = IF bucket(d) = bk THEN 1 ELSE 0
    BY <2>2, FS_EmptySet, FS_Singleton
  <2>4. P(m, b) = {<<d, bucket(d)>>}
    BY <2>1 DEF PairsIn, BucketOf
  <2> HIDE DEF N, P, d, m
  <2> DEFINE f == [bk \in Buckets |-> N(a, m, bk)]
  <2>5. [bk \in Buckets |-> N(a, b, bk)] = [f EXCEPT ![bucket(d)] = f[bucket(d)] + 1]
    BY <1>2, <1>3, <2>3
  <2> HIDE DEF f
  <2>6. CountedIn(c, lens, a, b) = Fold([pkts |-> f, pairs |-> P(a, m)], d)
    BY <1>2, <1>4, <2>4, <2>5 DEF Fold
  <2>7. QED
    BY <1>4, <1>5, <2>6 DEF f, d, m
<1>6. CASE ~Sees(c[b])
  <2>1. Seen(c, m, b) = {}
    BY <1>1, <1>6 DEF Seen
  <2>2. \A bk : Hits(c, lens, m, b, bk) = {}
    BY <2>1 DEF Hits
  <2>3. \A bk : N(m, b, bk) = 0
    BY <2>2, FS_EmptySet
  <2>4. P(m, b) = {}
    BY <2>1 DEF PairsIn
  <2> HIDE DEF N, P
  <2>5. \A bk : N(a, b, bk) = N(a, m, bk)
    BY <1>2, <1>3, <2>3
  <2>6. CountedIn(c, lens, a, b) = CountedIn(c, lens, a, m)
    BY <1>2, <1>4, <2>4, <2>5
  <2>7. QED
    BY <1>6, <2>6
<1>7. QED
  BY <1>5, <1>6

\* The recursive function of BucketPhase.
IsBucketing(recs, lens, m) ==
  m = [i \in 0 .. Len(recs) |->
         IF i = 0 THEN NewAcc
         ELSE IF Sees(recs[i]) THEN Fold(m[i - 1], ReadDcid(recs[i], lens))
         ELSE m[i - 1]]

\* _bucket_phase is the last value of its recursive function.
LEMMA BucketUnfold ==
  ASSUME NEW recs, NEW lens
  PROVE  BucketPhase(recs, lens) = (CHOOSE m : IsBucketing(recs, lens, m))[Len(recs)]
BY DEF IsBucketing, BucketPhase

\* _bucket_phase on records a + 1 .. b: how many fall into each bucket.
LEMMA BucketPhaseIs ==
  ASSUME NEW recs, NEW lens, NEW c, NEW a \in Int, NEW b \in Int, a <= b, Stretch(recs, c, a, b)
  PROVE  BucketPhase(recs, lens) = CountedIn(c, lens, a, b)
<1> DEFINE n == b - a
           val(i) == CountedIn(c, lens, a, a + i)
           w == [i \in 0 .. n |-> val(i)]
           dc(i) == ReadDcid(recs[i], lens)
<1>1. n \in Nat /\ Len(recs) = n /\ \A i \in 1 .. n : recs[i] = c[a + i]
  BY DEF Stretch
<1>2. val(0) = NewAcc
  BY CountedNone
<1>3. ASSUME NEW i \in 1 .. n
      PROVE  val(i) = IF Sees(recs[i]) THEN Fold(val(i - 1), dc(i)) ELSE val(i - 1)
  <2> DEFINE e == a + i
  <2>1. e \in Int /\ a < e /\ e - 1 = a + (i - 1) /\ recs[i] = c[e]
    BY <1>1
  <2>2. val(i) = CountedIn(c, lens, a, e) /\ val(i - 1) = CountedIn(c, lens, a, e - 1)
    BY <2>1
  <2> HIDE DEF e, val
  <2>3. QED
    BY <2>1, <2>2, CountedNext
<1> HIDE DEF val, n
<1>4. \A i \in 1 .. n : i - 1 \in 0 .. n /\ i # 0
  BY <1>1
<1>5. \A i \in 0 .. n : i # 0 => i \in 1 .. n
  BY <1>1
<1>6. IsBucketing(recs, lens, w)
  <2>1. \A i \in 0 .. n :
          w[i] = IF i = 0 THEN NewAcc
                 ELSE IF Sees(recs[i]) THEN Fold(w[i - 1], dc(i)) ELSE w[i - 1]
    <3> SUFFICES ASSUME NEW i \in 0 .. n
                 PROVE  w[i] = IF i = 0 THEN NewAcc
                               ELSE IF Sees(recs[i]) THEN Fold(w[i - 1], dc(i)) ELSE w[i - 1]
      OBVIOUS
    <3>1. w[i] = val(i)
      OBVIOUS
    <3>2. CASE i = 0
      BY <3>1, <3>2, <1>2
    <3>3. CASE i # 0
      <4>1. i \in 1 .. n /\ w[i - 1] = val(i - 1)
        BY <3>3, <1>4, <1>5
      <4> HIDE DEF w
      <4>2. QED
        BY <3>1, <3>3, <4>1, <1>3
    <3>4. QED
      BY <3>2, <3>3
  <2>2. w = [i \in 0 .. n |-> w[i]]
    OBVIOUS
  <2> HIDE DEF w
  <2>3. QED
    BY <2>1, <2>2, <1>1 DEF IsBucketing
<1> DEFINE m == CHOOSE g : IsBucketing(recs, lens, g)
<1>7. IsBucketing(recs, lens, m)
  BY <1>6
<1> HIDE DEF m
<1>8. /\ m[0] = NewAcc
      /\ \A i \in 1 .. n : m[i] = IF Sees(recs[i]) THEN Fold(m[i - 1], dc(i)) ELSE m[i - 1]
  <2> DEFINE h == [i \in 0 .. n |->
                     IF i = 0 THEN NewAcc
                     ELSE IF Sees(recs[i]) THEN Fold(m[i - 1], dc(i)) ELSE m[i - 1]]
  <2>1. m = h
    BY <1>1, <1>7 DEF IsBucketing
  <2>2. 0 \in 0 .. n /\ \A i \in 1 .. n : i \in 0 .. n /\ i # 0
    BY <1>1
  <2>3. h[0] = NewAcc
    BY <2>2
  <2>4. ASSUME NEW i \in 1 .. n
        PROVE  h[i] = IF Sees(recs[i]) THEN Fold(m[i - 1], dc(i)) ELSE m[i - 1]
    BY <2>2
  <2> HIDE DEF h
  <2>5. QED
    BY <2>1, <2>3, <2>4
<1> HIDE DEF dc
<1> DEFINE G == {i \in 0 .. n : m[i] = val(i)}
<1>9. 0 \in G
  BY <1>1, <1>2, <1>8
<1>10. ASSUME NEW i \in 1 .. n, i - 1 \in G PROVE i \in G
  <2>1. m[i - 1] = val(i - 1)
    BY <1>10
  <2>2. m[i] = val(i)
    BY <2>1, <1>3, <1>8
  <2>3. i \in 0 .. n
    BY <1>1
  <2>4. QED
    BY <2>2, <2>3
<1>11. 0 .. n \subseteq G
  <2> HIDE DEF G
  <2>1. QED
    BY <1>1, <1>9, <1>10, IntervalInduction
<1>12. m[n] = val(n)
  <2>1. n \in 0 .. n
    BY <1>1
  <2>2. QED
    BY <2>1, <1>11
<1>13. BucketPhase(recs, lens) = m[n]
  BY <1>1, BucketUnfold DEF m
<1>14. a + n = b
  BY DEF n
<1>15. QED
  BY <1>12, <1>13, <1>14 DEF val

-----------------------------------------------------------------------------
(* Where the capture is cut *)

\* Cut points in order, the first at the start of the file.
Cuts(s, n, top) ==
  /\ s \in Seq(0 .. n)
  /\ Len(s) >= 1
  /\ s[1] = 0
  /\ \A k \in 1 .. Len(s) - 1 : s[k] <= s[k + 1]
  /\ s[Len(s)] <= top

\* The ranges tile the capture: the last one ends at the end of the file.
Tiles(s, n) ==
  /\ s \in Seq(0 .. n)
  /\ Len(s) >= 2
  /\ s[1] = 0
  /\ \A k \in 1 .. Len(s) - 1 : s[k] <= s[k + 1]
  /\ s[Len(s)] = n

\* A cut at or past the last one keeps the cuts in order.
LEMMA CutsAppend ==
  ASSUME NEW n \in Nat, NEW s, NEW x \in 0 .. n, Cuts(s, n, x)
  PROVE  /\ Cuts(Append(s, x), n, x)
         /\ Len(Append(s, x)) >= 2
         /\ Append(s, x)[Len(Append(s, x))] = x
<1> DEFINE l == Len(s)
           r == Append(s, x)
<1>1. s \in Seq(0 .. n) /\ l \in Nat /\ l >= 1 /\ s[1] = 0 /\ s[l] <= x
  BY DEF Cuts
<1>2. /\ r \in Seq(0 .. n) /\ Len(r) = l + 1
      /\ \A k \in 1 .. l : r[k] = s[k]
      /\ r[l + 1] = x
  BY <1>1, AppendProperties
<1>3. \A k \in 1 .. l - 1 : s[k] <= s[k + 1]
  BY DEF Cuts
<1> HIDE DEF r, l
<1>4. ASSUME NEW k \in 1 .. Len(r) - 1 PROVE r[k] <= r[k + 1]
  <2>1. k \in 1 .. l /\ r[k] = s[k]
    BY <1>1, <1>2
  <2>2. CASE k = l
    BY <2>1, <2>2, <1>1, <1>2
  <2>3. CASE k # l
    <3>1. k \in 1 .. l - 1 /\ k + 1 \in 1 .. l
      BY <2>1, <2>3, <1>1
    <3>2. QED
      BY <2>1, <3>1, <1>2, <1>3
  <2>4. QED
    BY <2>2, <2>3
<1>5. r[1] = 0 /\ r[Len(r)] = x /\ Len(r) >= 2 /\ x <= x
  BY <1>1, <1>2
<1>6. QED
  BY <1>2, <1>4, <1>5 DEF Cuts, r

\* Cuts made so far stay before every later record.
LEMMA CutsLater ==
  ASSUME NEW n \in Nat, NEW s, NEW x \in 0 .. n, NEW y \in 0 .. n, x <= y, Cuts(s, n, x)
  PROVE  Cuts(s, n, y)
<1>1. s[Len(s)] \in 0 .. n
  <2>1. s \in Seq(0 .. n) /\ Len(s) \in 1 .. Len(s)
    BY DEF Cuts
  <2>2. QED
    BY <2>1, ElementOfSeq
<1>2. s[Len(s)] <= y
  BY <1>1 DEF Cuts
<1>3. QED
  BY <1>2 DEF Cuts

\* The test of detect's walk, and its recursive function.
CutHere(njobs, i, s) == Offset[i - 1] * njobs >= Len(s) * Total /\ Len(s) < njobs
IsWalk(njobs, w) ==
  w = [i \in 0 .. Len(cap) |->
         IF i = 0 THEN <<0>>
         ELSE IF /\ Offset[i - 1] * njobs >= Len(w[i - 1]) * Total
                 /\ Len(w[i - 1]) < njobs
              THEN Append(w[i - 1], i - 1)
              ELSE w[i - 1]]

\* The splits are the last value of the walk with the end of file appended.
LEMMA WalkUnfold ==
  ASSUME NEW njobs
  PROVE  Walk(njobs) = Append((CHOOSE w : IsWalk(njobs, w))[Len(cap)], Len(cap))
BY DEF IsWalk, Walk

\* Whatever the number of workers and the sizes of the records, the ranges
\* tile the capture.
LEMMA WalkTiles ==
  ASSUME NEW S, cap \in Seq(S), NEW njobs
  PROVE  Tiles(Walk(njobs), Len(cap))
<1> DEFINE n == Len(cap)
           C == Seq(0 .. n)
           h == [x \in (1 .. n) \X C |-> IF CutHere(njobs, x[1], x[2]) THEN Append(x[2], x[1] - 1) ELSE x[2]]
<1>1. n \in Nat /\ 0 \in 0 .. n /\ n \in 0 .. n /\ \A i \in 1 .. n : i - 1 \in 0 .. n /\ i \in 0 .. n /\ i # 0 /\ i - 1 <= i
  OBVIOUS
<1> HIDE DEF n
<1>2. <<0>> \in C
  BY <1>1
<1>3. h \in [(1 .. n) \X C -> C]
  <2> SUFFICES ASSUME NEW x \in (1 .. n) \X C
               PROVE  (IF CutHere(njobs, x[1], x[2]) THEN Append(x[2], x[1] - 1) ELSE x[2]) \in C
    OBVIOUS
  <2>1. x[2] \in C /\ x[1] - 1 \in 0 .. n
    BY <1>1
  <2>2. Append(x[2], x[1] - 1) \in C
    BY <2>1, AppendProperties
  <2>3. QED
    BY <2>1, <2>2
<1> HIDE DEF C
<1>4. \A i \in 1 .. n, s \in C : h[<<i, s>>] = IF CutHere(njobs, i, s) THEN Append(s, i - 1) ELSE s
  OBVIOUS
<1> HIDE DEF h
<1>5. PICK g \in [0 .. n -> C] : Recurs(g, n, <<0>>, h)
  BY <1>1, <1>2, <1>3, RecursionExists
<1>6. \A i \in 1 .. n : g[i] = IF CutHere(njobs, i, g[i - 1]) THEN Append(g[i - 1], i - 1) ELSE g[i - 1]
  BY <1>1, <1>4, <1>5 DEF Recurs
<1>7. IsWalk(njobs, g)
  <2>1. \A i \in 0 .. n :
          g[i] = IF i = 0 THEN <<0>>
                 ELSE IF CutHere(njobs, i, g[i - 1]) THEN Append(g[i - 1], i - 1) ELSE g[i - 1]
    <3> SUFFICES ASSUME NEW i \in 0 .. n
                 PROVE  g[i] = IF i = 0 THEN <<0>>
                               ELSE IF CutHere(njobs, i, g[i - 1]) THEN Append(g[i - 1], i - 1) ELSE g[i - 1]
      OBVIOUS
    <3>1. i # 0 => i \in 1 .. n
      BY <1>1
    <3>2. QED
      BY <3>1, <1>5, <1>6 DEF Recurs
  <2>2. g = [i \in 0 .. n |-> g[i]]
    OBVIOUS
  <2>3. QED
    BY <2>1, <2>2 DEF IsWalk, CutHere, n
<1> DEFINE w == CHOOSE f : IsWalk(njobs, f)
<1>8. IsWalk(njobs, w)
  BY <1>7
<1> HIDE DEF w
<1>9. /\ w[0] = <<0>>
      /\ \A i \in 1 .. n : w[i] = IF CutHere(njobs, i, w[i - 1]) THEN Append(w[i - 1], i - 1) ELSE w[i - 1]
  <2> DEFINE f == [i \in 0 .. n |->
                     IF i = 0 THEN <<0>>
                     ELSE IF CutHere(njobs, i, w[i - 1]) THEN Append(w[i - 1], i - 1) ELSE w[i - 1]]
  <2>1. w = f
    BY <1>8 DEF IsWalk, CutHere, n
  <2>2. f[0] = <<0>>
    BY <1>1
  <2>3. ASSUME NEW i \in 1 .. n
        PROVE  f[i] = IF CutHere(njobs, i, w[i - 1]) THEN Append(w[i - 1], i - 1) ELSE w[i - 1]
    BY <1>1
  <2> HIDE DEF f
  <2>4. QED
    BY <2>1, <2>2, <2>3
<1> DEFINE G == {i \in 0 .. n : Cuts(w[i], n, i)}
<1>10. 0 \in G
  <2>1. Cuts(<<0>>, n, 0)
    BY <1>1 DEF Cuts
  <2>2. QED
    BY <1>1, <1>9, <2>1
<1>11. ASSUME NEW i \in 1 .. n, i - 1 \in G PROVE i \in G
  <2>1. Cuts(w[i - 1], n, i - 1)
    BY <1>11
  <2>2. Cuts(w[i], n, i - 1)
    <3>1. Cuts(Append(w[i - 1], i - 1), n, i - 1)
      BY <2>1, <1>1, CutsAppend
    <3>2. QED
      BY <2>1, <3>1, <1>9
  <2>3. Cuts(w[i], n, i)
    BY <2>2, <1>1, CutsLater
  <2>4. QED
    BY <2>3, <1>1
<1>12. 0 .. n \subseteq G
  <2> HIDE DEF G
  <2>1. QED
    BY <1>1, <1>10, <1>11, IntervalInduction
<1>13. Cuts(w[n], n, n)
  BY <1>1, <1>12
<1>14. Walk(njobs) = Append(w[n], n)
  BY WalkUnfold DEF w, n
<1> DEFINE r == Append(w[n], n)
<1>15. Cuts(r, n, n) /\ Len(r) >= 2 /\ r[Len(r)] = n
  BY <1>1, <1>13, CutsAppend
<1> HIDE DEF r
<1>16. Tiles(r, n)
  BY <1>15 DEF Cuts, Tiles
<1>17. QED
  BY <1>14, <1>16 DEF n, r

-----------------------------------------------------------------------------
(* Merging what the workers return *)

\* The bounds of a range.
LEMMA TileBounds ==
  ASSUME NEW n \in Nat, Tiles(splits, n)
  PROVE  /\ Len(splits) - 1 \in Nat /\ 0 \in 0 .. Len(splits) - 1 /\ Len(splits) - 1 \in 0 .. Len(splits) - 1
         /\ splits[1] = 0 /\ splits[Len(splits) - 1 + 1] = n
         /\ \A i \in 1 .. Len(splits) - 1 :
              /\ splits[i] \in 0 .. n /\ splits[i + 1] \in 0 .. n
              /\ 0 <= splits[i] /\ splits[i] <= splits[i + 1]
              /\ i \notin Ranges => splits[i + 1] = splits[i]
         /\ Ranges \subseteq 1 .. Len(splits) - 1
<1>1. splits \in Seq(0 .. n) /\ Len(splits) \in Nat /\ Len(splits) >= 2
  BY DEF Tiles
<1>2. \A i \in 1 .. Len(splits) : splits[i] \in 0 .. n
  BY <1>1, ElementOfSeq
<1>3. ASSUME NEW i \in 1 .. Len(splits) - 1
      PROVE  /\ splits[i] \in 0 .. n /\ splits[i + 1] \in 0 .. n
             /\ 0 <= splits[i] /\ splits[i] <= splits[i + 1]
             /\ i \notin Ranges => splits[i + 1] = splits[i]
  <2>1. i \in 1 .. Len(splits) /\ i + 1 \in 1 .. Len(splits)
    BY <1>1
  <2>2. splits[i] \in 0 .. n /\ splits[i + 1] \in 0 .. n /\ splits[i] <= splits[i + 1]
    BY <1>2, <2>1 DEF Tiles
  <2>3. i \notin Ranges => ~(splits[i + 1] > splits[i])
    BY DEF Ranges
  <2>4. QED
    BY <2>2, <2>3
<1>4. splits[1] = 0 /\ splits[Len(splits) - 1 + 1] = n
  BY <1>1 DEF Tiles
<1>5. QED
  BY <1>1, <1>3, <1>4 DEF Ranges

\* A worker reads the records of its range; the serial run reads them all.
LEMMA RecordsAre ==
  ASSUME NEW S, cap \in Seq(S), Tiles(splits, Len(cap)), NEW i \in Ranges
  PROVE  Stretch(Records(i), cap, splits[i], splits[i + 1])
<1> DEFINE a == splits[i]
           b == splits[i + 1]
           r == SubSeq(cap, a + 1, b)
<1>1. Len(cap) \in Nat /\ i \in 1 .. Len(splits) - 1
  BY DEF Ranges
<1>2. a \in 0 .. Len(cap) /\ b \in 0 .. Len(cap) /\ a <= b
  BY <1>1, TileBounds
<1> HIDE DEF a, b
<1>3. a + 1 \in Int /\ b \in Int /\ a + 1 .. b \subseteq 1 .. Len(cap)
  BY <1>1, <1>2
<1>4. \A j \in a + 1 .. b : cap[j] \in S
  BY <1>3, ElementOfSeq
<1>5. /\ Len(r) = IF a + 1 <= b THEN b - (a + 1) + 1 ELSE 0
      /\ \A j \in 1 .. b - (a + 1) + 1 : r[j] = cap[a + 1 + j - 1]
  BY <1>3, <1>4, SubSeqProperties
<1> HIDE DEF r
<1>6. Len(r) = b - a
  BY <1>2, <1>5
<1>7. ASSUME NEW j \in 1 .. b - a PROVE r[j] = cap[a + j]
  <2>1. j \in 1 .. b - (a + 1) + 1 /\ a + 1 + j - 1 = a + j
    BY <1>2
  <2>2. QED
    BY <2>1, <1>5
<1>8. Stretch(r, cap, a, b)
  BY <1>6, <1>7 DEF Stretch
<1>9. QED
  BY <1>8 DEF r, a, b, Records

\* The whole capture is the stretch of all its records.
LEMMA CaptureIs ==
  ASSUME NEW S, cap \in Seq(S)
  PROVE  Stretch(cap, cap, 0, Len(cap))
<1>1. Len(cap) \in Nat
  OBVIOUS
<1>2. Len(cap) - 0 = Len(cap) /\ \A i \in 1 .. Len(cap) : 0 + i = i
  BY <1>1
<1>3. QED
  BY <1>2 DEF Stretch

\* The loop that merges the maps.
IsMerging(m) ==
  m = [i \in 0 .. Len(splits) - 1 |->
         IF i = 0 THEN NoLengths
         ELSE IF i \in Ranges THEN Update(m[i - 1], maps[i]) ELSE m[i - 1]]

\* The merged map is the last value of the loop over the ranges.
LEMMA MergeUnfold == MergeMaps = (CHOOSE m : IsMerging(m))[Len(splits) - 1]
BY DEF IsMerging, MergeMaps

\* Merging the maps in range order gives the map of the serial run, in
\* whatever order the workers returned them.
LEMMA MergeMapsIs ==
  ASSUME NEW S, cap \in Seq(S), Tiles(splits, Len(cap)),
         \A i \in Ranges : maps[i] = LearnPhase(Records(i))
  PROVE  MergeMaps = LearnPhase(cap)
<1> DEFINE n == Len(splits) - 1
           val(i) == LearnedIn(cap, 0, splits[i + 1])
           w == [i \in 0 .. n |-> val(i)]
<1>0. Len(cap) \in Nat
  OBVIOUS
<1>1. /\ n \in Nat /\ 0 \in 0 .. n /\ n \in 0 .. n
      /\ splits[1] = 0 /\ splits[n + 1] = Len(cap)
  BY <1>0, TileBounds
<1>2. val(0) = NoLengths
  BY <1>1, LearnedNone
<1>3. ASSUME NEW i \in 1 .. n
      PROVE  val(i) = IF i \in Ranges THEN Update(val(i - 1), maps[i]) ELSE val(i - 1)
  <2> DEFINE a == splits[i]
             b == splits[i + 1]
  <2>1. /\ a \in 0 .. Len(cap) /\ b \in 0 .. Len(cap) /\ 0 <= a /\ a <= b
        /\ i \notin Ranges => b = a
    BY <1>0, TileBounds
  <2>2. val(i - 1) = LearnedIn(cap, 0, a)
    <3>1. i - 1 + 1 = i
      BY <1>1
    <3>2. QED
      BY <3>1
  <2>3. CASE i \in Ranges
    <3>1. Stretch(Records(i), cap, a, b)
      BY <2>3, RecordsAre
    <3> HIDE DEF a, b
    <3>2. a \in Int /\ b \in Int /\ 0 \in Int
      BY <2>1, <1>0
    <3>3. LearnPhase(Records(i)) = LearnedIn(cap, a, b)
      BY <2>1, <3>1, <3>2, LearnPhaseIs
    <3>4. LearnedIn(cap, 0, b) = Update(LearnedIn(cap, 0, a), LearnedIn(cap, a, b))
      BY <2>1, <3>2, LearnedJoin
    <3>5. QED
      BY <2>2, <2>3, <3>3, <3>4 DEF a, b
  <2>4. CASE i \notin Ranges
    BY <2>1, <2>2, <2>4
  <2>5. QED
    BY <2>3, <2>4
<1> HIDE DEF val, n
<1>4. \A i \in 1 .. n : i - 1 \in 0 .. n /\ i # 0 /\ i \in 0 .. n
  BY <1>1
<1>5. \A i \in 0 .. n : i # 0 => i \in 1 .. n
  BY <1>1
<1>6. IsMerging(w)
  <2>1. \A i \in 0 .. n :
          w[i] = IF i = 0 THEN NoLengths
                 ELSE IF i \in Ranges THEN Update(w[i - 1], maps[i]) ELSE w[i - 1]
    <3> SUFFICES ASSUME NEW i \in 0 .. n
                 PROVE  w[i] = IF i = 0 THEN NoLengths
                               ELSE IF i \in Ranges THEN Update(w[i - 1], maps[i]) ELSE w[i - 1]
      OBVIOUS
    <3>1. w[i] = val(i)
      OBVIOUS
    <3>2. CASE i = 0
      BY <3>1, <3>2, <1>2
    <3>3. CASE i # 0
      <4>1. i \in 1 .. n /\ w[i - 1] = val(i - 1)
        BY <3>3, <1>4, <1>5
      <4> HIDE DEF w
      <4>2. QED
        BY <3>1, <3>3, <4>1, <1>3
    <3>4. QED
      BY <3>2, <3>3
  <2>2. w = [i \in 0 .. n |-> w[i]]
    OBVIOUS
  <2> HIDE DEF w
  <2>3. QED
    BY <2>1, <2>2 DEF IsMerging, n
<1> DEFINE m == CHOOSE g : IsMerging(g)
<1>7. IsMerging(m)
  BY <1>6
<1> HIDE DEF m
<1>8. /\ m[0] = NoLengths
      /\ \A i \in 1 .. n : m[i] = IF i \in Ranges THEN Update(m[i - 1], maps[i]) ELSE m[i - 1]
  <2> DEFINE h == [i \in 0 .. n |->
                     IF i = 0 THEN NoLengths
                     ELSE IF i \in Ranges THEN Update(m[i - 1], maps[i]) ELSE m[i - 1]]
  <2>1. m = h
    BY <1>7 DEF IsMerging, n
  <2>2. h[0] = NoLengths
    BY <1>1
  <2>3. ASSUME NEW i \in 1 .. n
        PROVE  h[i] = IF i \in Ranges THEN Update(m[i - 1], maps[i]) ELSE m[i - 1]
    BY <1>4
  <2> HIDE DEF h
  <2>4. QED
    BY <2>1, <2>2, <2>3
<1> DEFINE G == {i \in 0 .. n : m[i] = val(i)}
<1>9. 0 \in G
  BY <1>1, <1>2, <1>8
<1>10. ASSUME NEW i \in 1 .. n, i - 1 \in G PROVE i \in G
  <2>1. m[i - 1] = val(i - 1)
    BY <1>10
  <2>2. m[i] = val(i)
    BY <2>1, <1>3, <1>8
  <2>3. QED
    BY <2>2, <1>4
<1>11. 0 .. n \subseteq G
  <2> HIDE DEF G
  <2>1. QED
    BY <1>1, <1>9, <1>10, IntervalInduction
<1>12. m[n] = val(n)
  BY <1>1, <1>11
<1>13. MergeMaps = m[n]
  BY MergeUnfold DEF m, n
<1>14. val(n) = LearnedIn(cap, 0, Len(cap))
  BY <1>1 DEF val
<1>15. LearnPhase(cap) = LearnedIn(cap, 0, Len(cap))
  <2>1. 0 \in Int /\ Len(cap) \in Int /\ 0 <= Len(cap)
    BY <1>0
  <2>2. QED
    BY <2>1, CaptureIs, LearnPhaseIs
<1>16. QED
  BY <1>12, <1>13, <1>14, <1>15

\* Adding up the counts of the ranges gives the counts of the serial run.
LEMMA MergePartsIs ==
  ASSUME NEW S, cap \in Seq(S), Tiles(splits, Len(cap)), NEW lens,
         \A i \in Ranges : parts[i] = BucketPhase(Records(i), lens)
  PROVE  MergeParts = BucketPhase(cap, lens)
<1> DEFINE n == Len(splits) - 1
           N(x, y, bk) == Cardinality(Hits(cap, lens, x, y, bk))
           P(x, y) == PairsIn(cap, lens, x, y)
           f(bk) == [i \in Ranges |-> parts[i].pkts[bk]]
           R(k) == {i \in Ranges : i <= k}
<1>0. Len(cap) \in Nat /\ 0 \in Int /\ Len(cap) \in Int /\ 0 <= Len(cap)
  OBVIOUS
<1>1. /\ n \in Nat /\ 0 \in 0 .. n /\ n \in 0 .. n
      /\ splits[1] = 0 /\ splits[n + 1] = Len(cap)
      /\ \A i \in 1 .. n : /\ splits[i] \in 0 .. Len(cap) /\ splits[i + 1] \in 0 .. Len(cap)
                           /\ 0 <= splits[i] /\ splits[i] <= splits[i + 1]
                           /\ i \notin Ranges => splits[i + 1] = splits[i]
      /\ Ranges \subseteq 1 .. n
  BY <1>0, TileBounds
<1>2. ASSUME NEW i \in Ranges
      PROVE  /\ \A bk \in Buckets : parts[i].pkts[bk] = N(splits[i], splits[i + 1], bk)
             /\ parts[i].pairs = P(splits[i], splits[i + 1])
  <2> DEFINE a == splits[i]
             b == splits[i + 1]
  <2>1. a \in Int /\ b \in Int /\ a <= b
    BY <1>0, <1>1
  <2>2. Stretch(Records(i), cap, a, b)
    BY RecordsAre
  <2> HIDE DEF a, b
  <2>3. parts[i] = CountedIn(cap, lens, a, b)
    BY <2>1, <2>2, BucketPhaseIs
  <2>4. QED
    BY <2>3 DEF CountedIn, a, b
<1>3. \A x, y \in Int : \A bk : N(x, y, bk) \in Nat
  BY HitsFinite
<1>4. \A x, y, z \in Int : \A bk : x <= y /\ y <= z => N(x, z, bk) = N(x, y, bk) + N(y, z, bk)
  BY HitsJoin
<1>5. \A x, y, z \in Int : x <= y /\ y <= z => P(x, z) = P(x, y) \cup P(y, z)
  BY PairsJoin
<1>6. (\A bk : N(0, 0, bk) = 0) /\ P(0, 0) = {}
  BY <1>0, CountedNone
<1> HIDE DEF N, P, n
<1>7. IsFiniteSet(Ranges) /\ \A k : IsFiniteSet(R(k)) /\ R(k) \subseteq Ranges
  <2>1. 1 \in Int /\ n \in Int
    BY <1>1
  <2>2. IsFiniteSet(1 .. n)
    BY <2>1, FS_Interval
  <2>3. \A k : R(k) \subseteq Ranges
    OBVIOUS
  <2>4. QED
    BY <2>2, <2>3, <1>1, FS_Subset
<1>8. R(0) = {} /\ R(n) = Ranges
  <2>1. \A i \in 1 .. n : ~(i <= 0) /\ i <= n
    BY <1>1
  <2>2. QED
    BY <2>1, <1>1
<1>9. ASSUME NEW i \in 1 .. n
      PROVE  R(i) = IF i \in Ranges THEN R(i - 1) \cup {i} ELSE R(i - 1)
  <2>1. \A j \in 1 .. n : j <= i <=> (j <= i - 1 \/ j = i)
    BY <1>1
  <2>2. QED
    BY <2>1, <1>1
<1>9a. \A i \in 1 .. n : i \notin R(i - 1)
  BY <1>1
<1> HIDE DEF R
<1>10. ASSUME NEW bk \in Buckets
       PROVE  SumFunction(f(bk)) = N(0, Len(cap), bk)
  <2> DEFINE g == f(bk)
             G == {k \in 0 .. n : SumFunctionOnSet(g, R(k)) = N(0, splits[k + 1], bk)}
  <2>1. \A i \in Ranges : g[i] = N(splits[i], splits[i + 1], bk) /\ g[i] \in Int
    <3> SUFFICES ASSUME NEW i \in Ranges
                 PROVE  g[i] = N(splits[i], splits[i + 1], bk) /\ g[i] \in Int
      OBVIOUS
    <3>1. g[i] = N(splits[i], splits[i + 1], bk)
      BY <1>2
    <3>2. splits[i] \in Int /\ splits[i + 1] \in Int
      BY <1>0, <1>1
    <3> HIDE DEF g
    <3>3. QED
      BY <3>1, <3>2, <1>3
  <2>2. DOMAIN g = Ranges
    OBVIOUS
  <2> HIDE DEF f
  <2> HIDE DEF g
  <2>3. 0 \in G
    <3>1. SumFunctionOnSet(g, R(0)) = 0
      BY <1>8, SumEmpty
    <3>2. QED
      BY <3>1, <1>1, <1>6
  <2>4. ASSUME NEW k \in 1 .. n, k - 1 \in G PROVE k \in G
    <3> DEFINE a == splits[k]
               b == splits[k + 1]
               T == R(k - 1)
    <3>1. k - 1 + 1 = k /\ k \in 0 .. n
      BY <1>1
    <3>2. SumFunctionOnSet(g, T) = N(0, a, bk)
      BY <2>4, <3>1
    <3>3. a \in Int /\ b \in Int /\ 0 <= a /\ a <= b /\ (k \notin Ranges => b = a)
      BY <1>0, <1>1
    <3>4. N(0, b, bk) = N(0, a, bk) + N(a, b, bk)
      BY <3>3, <1>0, <1>4
    <3>5. k \notin T /\ IsFiniteSet(T) /\ T \subseteq Ranges
      BY <1>7, <1>9a
    <3>6. CASE k \in Ranges
      <4>1. R(k) = T \cup {k}
        BY <3>6, <1>9
      <4>2. \A y \in T \cup {k} : g[y] \in Int
        BY <3>5, <3>6, <2>1
      <4>3. g[k] = N(a, b, bk)
        BY <3>6, <2>1
      <4> HIDE DEF T, a, b
      <4>4. SumFunctionOnSet(g, T \cup {k}) = SumFunctionOnSet(g, T) + g[k]
        BY <3>5, <4>2, SumInsert
      <4>5. SumFunctionOnSet(g, R(k)) = N(0, b, bk)
        BY <4>1, <4>3, <4>4, <3>2, <3>4
      <4>6. QED
        BY <4>5, <3>1 DEF b
    <3>7. CASE k \notin Ranges
      BY <3>1, <3>2, <3>3, <3>7, <1>9
    <3>8. QED
      BY <3>6, <3>7
  <2>5. 0 .. n \subseteq G
    <3> HIDE DEF G
    <3>1. QED
      BY <1>1, <2>3, <2>4, IntervalInduction
  <2>6. SumFunctionOnSet(g, Ranges) = N(0, Len(cap), bk)
    BY <2>5, <1>1, <1>8
  <2>7. SumFunction(g) = SumFunctionOnSet(g, Ranges)
    BY <2>2 DEF SumFunction
  <2>8. QED
    BY <2>6, <2>7 DEF g
<1>11. UNION {parts[i].pairs : i \in Ranges} = P(0, Len(cap))
  <2> DEFINE U(k) == UNION {parts[i].pairs : i \in R(k)}
             G == {k \in 0 .. n : U(k) = P(0, splits[k + 1])}
  <2>1. 0 \in G
    BY <1>1, <1>6, <1>8
  <2>2. ASSUME NEW k \in 1 .. n, k - 1 \in G PROVE k \in G
    <3> DEFINE a == splits[k]
               b == splits[k + 1]
    <3>1. k - 1 + 1 = k /\ k \in 0 .. n
      BY <1>1
    <3>2. U(k - 1) = P(0, a)
      BY <2>2, <3>1
    <3>3. a \in Int /\ b \in Int /\ 0 <= a /\ a <= b /\ (k \notin Ranges => b = a)
      BY <1>0, <1>1
    <3>4. P(0, b) = P(0, a) \cup P(a, b)
      <4> HIDE DEF a, b
      <4>1. QED
        BY <3>3, <1>0, <1>5
    <3>5. CASE k \in Ranges
      <4>1. R(k) = R(k - 1) \cup {k}
        BY <3>5, <1>9
      <4>2. U(k) = U(k - 1) \cup parts[k].pairs
        BY <4>1
      <4>3. parts[k].pairs = P(a, b)
        BY <3>5, <1>2
      <4> HIDE DEF U
      <4>4. U(k) = P(0, b)
        BY <4>2, <4>3, <3>2, <3>4
      <4>5. QED
        BY <4>4, <3>1
    <3>6. CASE k \notin Ranges
      BY <3>1, <3>2, <3>3, <3>6, <1>9
    <3>7. QED
      BY <3>5, <3>6
  <2>3. 0 .. n \subseteq G
    <3> HIDE DEF G
    <3>1. QED
      BY <1>1, <2>1, <2>2, IntervalInduction
  <2>4. QED
    BY <2>3, <1>1, <1>8
<1>12. MergeParts = [pkts |-> [bk \in Buckets |-> N(0, Len(cap), bk)], pairs |-> P(0, Len(cap))]
  BY <1>10, <1>11 DEF MergeParts
<1>13. BucketPhase(cap, lens) = CountedIn(cap, lens, 0, Len(cap))
  BY <1>0, CaptureIs, BucketPhaseIs
<1>14. QED
  BY <1>12, <1>13 DEF CountedIn, N, P

-----------------------------------------------------------------------------
(* The inductive invariant of the tool *)

\* At every step of the tool: the ranges tile the capture, and what the
\* workers have returned so far is what their ranges hold.
CutInv == /\ cap \in Seq(Packets)
          /\ tool \in {"idle", "learn", "bucket", "done"}
          /\ tool # "idle" => Tiles(splits, Len(cap))
LearnInv == tool = "learn" =>
              /\ DOMAIN maps \subseteq Ranges /\ DOMAIN parts = {}
              /\ \A i \in DOMAIN maps : maps[i] = LearnPhase(Records(i))
LearnedInv == tool \in {"bucket", "done"} => learned = LearnPhase(cap)
BucketInv == tool = "bucket" =>
               /\ DOMAIN parts \subseteq Ranges
               /\ \A i \in DOMAIN parts : parts[i] = BucketPhase(Records(i), learned)
ToolInv == CutInv /\ LearnInv /\ LearnedInv /\ BucketInv /\ ShardedIsSerial

\* Nothing is captured and the tool is idle.
LEMMA ToolInit == ASSUME PcapInit PROVE ToolInv
<1>1. cap \in Seq(Packets) /\ tool = "idle"
  BY DEF PcapInit
<1>2. QED
  BY <1>1 DEF ToolInv, CutInv, LearnInv, LearnedInv, BucketInv, ShardedIsSerial

\* Packets are only captured before the tool starts.
LEMMA TapInv ==
  ASSUME ToolInv, NEW p \in Packets, Tap(p)
  PROVE  ToolInv'
<1>1. cap' \in Seq(Packets) /\ tool' = "idle"
  BY AppendProperties DEF ToolInv, CutInv, Tap, toolVars
<1>2. QED
  BY <1>1 DEF ToolInv, CutInv, LearnInv, LearnedInv, BucketInv, ShardedIsSerial

\* detect: the walk tiles the capture, and no worker has returned yet.
LEMMA DetectInv ==
  ASSUME ToolInv, NEW njobs, Detect(njobs)
  PROVE  ToolInv'
<1>1. cap \in Seq(Packets) /\ cap' = cap /\ tool' = "learn"
  BY DEF ToolInv, CutInv, Detect
<1>2. Tiles(splits', Len(cap'))
  <2>1. Tiles(Walk(njobs), Len(cap))
    BY <1>1, WalkTiles
  <2>2. QED
    BY <2>1, <1>1 DEF Detect
<1>3. DOMAIN maps' = {} /\ DOMAIN parts' = {}
  BY DEF Detect
<1>4. QED
  BY <1>1, <1>2, <1>3 DEF ToolInv, CutInv, LearnInv, LearnedInv, BucketInv, ShardedIsSerial

\* A learn worker returns what its range teaches.
LEMMA LearnWorkerInv ==
  ASSUME ToolInv, NEW i \in Ranges, LearnWorker(i)
  PROVE  ToolInv'
<1>1. /\ tool = "learn" /\ tool' = "learn" /\ cap' = cap /\ splits' = splits /\ parts' = parts
      /\ maps' = Update(maps, [j \in {i} |-> LearnPhase(Records(i))])
  BY DEF LearnWorker
<1>2. /\ cap \in Seq(Packets) /\ Tiles(splits, Len(cap))
      /\ DOMAIN maps \subseteq Ranges /\ DOMAIN parts = {}
      /\ \A j \in DOMAIN maps : maps[j] = LearnPhase(Records(j))
  BY <1>1 DEF ToolInv, CutInv, LearnInv
<1>3. Ranges' = Ranges /\ \A j : Records(j)' = Records(j)
  BY <1>1 DEF Ranges, Records
<1> DEFINE v == LearnPhase(Records(i))
           g == Update(maps, [j \in {i} |-> v])
<1>4. DOMAIN g = DOMAIN maps \cup {i} /\ g[i] = v /\ \A x \in DOMAIN maps \ {i} : g[x] = maps[x]
  <2>1. g = Update(maps, [j \in {i} |-> v])
    OBVIOUS
  <2> HIDE DEF g, v
  <2>2. QED
    BY <2>1 DEF Update
<1>5. DOMAIN g \subseteq Ranges /\ \A j \in DOMAIN g : g[j] = LearnPhase(Records(j))
  <2> HIDE DEF g
  <2>1. QED
    BY <1>2, <1>4
<1>6. maps' = g
  BY <1>1
<1> HIDE DEF g
<1>7. DOMAIN maps' \subseteq Ranges' /\ \A j \in DOMAIN maps' : maps'[j] = LearnPhase(SubSeq(cap', splits'[j] + 1, splits'[j + 1]))
  BY <1>1, <1>3, <1>5, <1>6 DEF Records
<1>8. LearnInv'
  BY <1>1, <1>2, <1>7 DEF LearnInv, Records
<1>9. QED
  BY <1>1, <1>2, <1>8 DEF ToolInv, CutInv, LearnedInv, BucketInv, ShardedIsSerial

\* The merge in range order is the map of the serial run.
LEMMA LearnDoneInv ==
  ASSUME ToolInv, LearnDone
  PROVE  ToolInv'
<1>1. /\ tool = "learn" /\ tool' = "bucket" /\ cap' = cap /\ splits' = splits /\ parts' = parts
      /\ DOMAIN maps = Ranges /\ learned' = MergeMaps
  BY DEF LearnDone
<1>2. /\ cap \in Seq(Packets) /\ Tiles(splits, Len(cap)) /\ DOMAIN parts = {}
      /\ \A j \in Ranges : maps[j] = LearnPhase(Records(j))
  BY <1>1 DEF ToolInv, CutInv, LearnInv
<1>3. MergeMaps = LearnPhase(cap)
  BY <1>2, MergeMapsIs
<1>4. QED
  BY <1>1, <1>2, <1>3 DEF ToolInv, CutInv, LearnInv, LearnedInv, BucketInv, ShardedIsSerial

\* A bucket worker returns what its range counts with the complete map.
LEMMA BucketWorkerInv ==
  ASSUME ToolInv, NEW i \in Ranges, BucketWorker(i)
  PROVE  ToolInv'
<1>1. /\ tool = "bucket" /\ tool' = "bucket" /\ cap' = cap /\ splits' = splits /\ learned' = learned
      /\ parts' = Update(parts, [j \in {i} |-> BucketPhase(Records(i), learned)])
  BY DEF BucketWorker
<1>2. /\ cap \in Seq(Packets) /\ Tiles(splits, Len(cap)) /\ learned = LearnPhase(cap)
      /\ DOMAIN parts \subseteq Ranges
      /\ \A j \in DOMAIN parts : parts[j] = BucketPhase(Records(j), learned)
  BY <1>1 DEF ToolInv, CutInv, LearnedInv, BucketInv
<1>3. Ranges' = Ranges
  BY <1>1 DEF Ranges
<1> DEFINE v == BucketPhase(Records(i), learned)
           g == Update(parts, [j \in {i} |-> v])
<1>4. DOMAIN g = DOMAIN parts \cup {i} /\ g[i] = v /\ \A x \in DOMAIN parts \ {i} : g[x] = parts[x]
  <2>1. g = Update(parts, [j \in {i} |-> v])
    OBVIOUS
  <2> HIDE DEF g, v
  <2>2. QED
    BY <2>1 DEF Update
<1>5. DOMAIN g \subseteq Ranges /\ \A j \in DOMAIN g : g[j] = BucketPhase(Records(j), learned)
  <2> HIDE DEF g
  <2>1. QED
    BY <1>2, <1>4
<1>6. parts' = g
  BY <1>1
<1> HIDE DEF g
<1>7. /\ DOMAIN parts' \subseteq Ranges'
      /\ \A j \in DOMAIN parts' : parts'[j] = BucketPhase(SubSeq(cap', splits'[j] + 1, splits'[j + 1]), learned')
  BY <1>1, <1>3, <1>5, <1>6 DEF Records
<1>8. BucketInv'
  BY <1>1, <1>7 DEF BucketInv, Records
<1>9. QED
  BY <1>1, <1>2, <1>8 DEF ToolInv, CutInv, LearnInv, LearnedInv, ShardedIsSerial

\* The merged counts are those of the serial run.
LEMMA BucketDoneInv ==
  ASSUME ToolInv, BucketDone
  PROVE  ToolInv'
<1>1. /\ tool = "bucket" /\ tool' = "done" /\ cap' = cap /\ splits' = splits /\ learned' = learned
      /\ DOMAIN parts = Ranges /\ result' = MergeParts
  BY DEF BucketDone
<1>2. /\ cap \in Seq(Packets) /\ Tiles(splits, Len(cap)) /\ learned = LearnPhase(cap)
      /\ \A j \in Ranges : parts[j] = BucketPhase(Records(j), learned)
  BY <1>1 DEF ToolInv, CutInv, LearnedInv, BucketInv
<1>3. MergeParts = BucketPhase(cap, learned)
  BY <1>2, MergePartsIs
<1>4. QED
  BY <1>1, <1>2, <1>3 DEF ToolInv, CutInv, LearnInv, LearnedInv, BucketInv, ShardedIsSerial

\* Every step keeps the invariant of the tool.
LEMMA ToolStep ==
  ASSUME ToolInv, [PcapNext]_pcapVars
  PROVE  ToolInv'
<1>1. CASE \E p \in Packets : Process(p) /\ Tap(p)
  BY <1>1, TapInv
<1>2. CASE Tool
  BY <1>2, DetectInv, LearnWorkerInv, LearnDoneInv, BucketWorkerInv, BucketDoneInv DEF Tool
<1>3. CASE UNCHANGED pcapVars
  BY <1>3 DEF pcapVars, toolVars, ToolInv, CutInv, LearnInv, LearnedInv, BucketInv,
              ShardedIsSerial, Ranges, Records
<1>4. QED
  BY <1>1, <1>2, <1>3 DEF PcapNext

\* For every capture, number of workers and order in which they finish,
\* pcap_buckets.py reports what a serial run over the whole file would.
THEOREM ShardedSerial == PcapSpec => []ShardedIsSerial
<1>1. PcapInit => ToolInv
  BY ToolInit
<1>2. ToolInv /\ [PcapNext]_pcapVars => ToolInv'
  BY ToolStep
<1>3. ToolInv => ShardedIsSerial
  BY DEF ToolInv
<1>4. QED
  BY <1>1, <1>2, <1>3, PTL DEF PcapSpec

-----------------------------------------------------------------------------
(* The switch and the capture *)

\* The bucket the switch gives record i of c: that of its ID once its length is
\* known, by its own header or by an earlier Handshake with its key.
KeySeen(c, i) == \E j \in 1 .. i - 1 : Handshake(c[j]) /\ flow_key(c[j]) = flow_key(c[i])
SwBucket(c, i) == IF Long(c[i]) \/ KeySeen(c, i) THEN CidBucket(c[i].cid) ELSE ZeroBucket
SwHits(c, n, b) == {i \in 1 .. n : Quic(c[i]) /\ SwBucket(c, i) = b}

\* A register cell holds the length a captured Handshake taught, or none did.
Taught(c, n, k) == {j \in 1 .. n : Handshake(c[j]) /\ flow_key(c[j]) = k}
KnownLen(c, n, k, len) ==
  IF Taught(c, n, k) = {} THEN len = 0
                          ELSE \E j \in Taught(c, n, k) : c[j].dcid_len = len

\* The registers after the packets captured so far: lengths learned, packets
\* counted.  Nothing is forced, and no script runs.
SwitchInv ==
  /\ TypeOK
  /\ cap \in Seq(Packets)
  /\ force_len = 0 /\ npackets = Len(cap)
  /\ \A k \in Keys : KnownLen(cap, Len(cap), k, dcid_len_reg[k])
  /\ \A b \in Buckets : quic_pkt_count[b] = Cardinality(SwHits(cap, Len(cap), b))

\* A bucket of the switch is hit a finite number of times.
LEMMA SwHitsFinite ==
  ASSUME NEW c, NEW n \in Nat, NEW b
  PROVE  /\ IsFiniteSet(SwHits(c, n, b))
         /\ Cardinality(SwHits(c, n, b)) \in Nat
         /\ Cardinality(SwHits(c, n, b)) <= n
<1>1. 1 \in Int /\ n \in Int
  OBVIOUS
<1>2. IsFiniteSet(1 .. n) /\ Cardinality(1 .. n) = IF 1 > n THEN 0 ELSE n - 1 + 1
  BY <1>1, FS_Interval
<1>3. Cardinality(1 .. n) = n
  BY <1>2
<1>4. SwHits(c, n, b) \subseteq 1 .. n
  BY DEF SwHits
<1>5. QED
  BY <1>2, <1>3, <1>4, FS_Subset, FS_CardinalityType

\* The masked field of a known length hashes like the ID, of none like no ID.
LEMMA KnownHash ==
  ASSUME Comparable, NEW p \in Packets, Quic(p)
  PROVE  /\ Sees(p) /\ Len(p.cid) <= DcidBytes /\ Len(p.cid) \in Nat
         /\ dcid_hash(Masked(p.dcid, Len(p.cid))) = CidBucket(p.cid)
         /\ dcid_hash(Masked(p.dcid, 0)) = ZeroBucket
         /\ CidBucket(p.cid) \in Buckets
         /\ ZeroBucket \in Buckets
<1>1. Sees(p)
  BY DEF Quic, Sees
<1>2. Len(p.cid) <= DcidBytes
  BY <1>1 DEF Comparable
<1>3. p.dcid \in Dcid /\ p.cid \in Seq(Byte) /\ Shows(p.dcid, p.cid) /\ Len(p.cid) \in Nat
  BY PacketFields, WireAssumption
<1>4. Masked(p.dcid, Len(p.cid)) = Padded(p.cid)
  BY <1>2, <1>3, MaskKeepsCid
<1>5. 0 \in 0 .. 255
  OBVIOUS
<1>6. Masked(p.dcid, 0) = Padded(<<>>)
  BY <1>3, <1>5, MaskDropsAll
<1>7. CRC32(Padded(p.cid)) \in Nat /\ CRC32(Padded(<<>>)) \in Nat
  BY <1>5, <1>6, HashAssumption
<1>8. CidBucket(p.cid) \in Buckets /\ ZeroBucket \in Buckets
  BY <1>7, ModRange, SizesAssumption DEF CidBucket, ZeroBucket, dcid_hash, Buckets
<1>9. QED
  BY <1>1, <1>2, <1>3, <1>4, <1>6, <1>8 DEF CidBucket, ZeroBucket

\* The bucket of a packet is the one the capture so far says.
LEMMA FlowIdIs ==
  ASSUME Comparable, SwitchInv, NEW p \in Packets, Quic(p)
  PROVE  flow_id(p) = IF Long(p) \/ Taught(cap, Len(cap), flow_key(p)) # {}
                      THEN CidBucket(p.cid) ELSE ZeroBucket
<1> DEFINE T == Taught(cap, Len(cap), flow_key(p))
<1>0. force_len = 0 /\ cap \in Seq(Packets) /\ KnownLen(cap, Len(cap), flow_key(p), dcid_len_reg[flow_key(p)])
  BY PacketFields DEF SwitchInv
<1>1. CASE Long(p)
  <2>1. eff_len(p) = Len(p.cid)
    BY <1>0, <1>1, WireAssumption DEF eff_len, Long, Short
  <2>2. QED
    BY <1>1, <2>1, KnownHash DEF flow_id
<1>2. CASE Short(p)
  <2>1. eff_len(p) = dcid_len_reg[flow_key(p)]
    BY <1>0, <1>2 DEF eff_len, Long, Short
  <2>2. ~Long(p)
    BY <1>2 DEF Long, Short
  <2>3. CASE T = {}
    <3>1. eff_len(p) = 0
      BY <1>0, <2>1, <2>3 DEF KnownLen
    <3>2. QED
      BY <2>2, <2>3, <3>1, KnownHash DEF flow_id
  <2>4. CASE T # {}
    <3>1. PICK j \in T : cap[j].dcid_len = dcid_len_reg[flow_key(p)]
      BY <1>0, <2>4 DEF KnownLen
    <3>2. j \in 1 .. Len(cap) /\ Handshake(cap[j]) /\ flow_key(cap[j]) = flow_key(p)
      BY DEF Taught
    <3>3. cap[j] \in Packets
      BY <1>0, <3>2, ElementOfSeq
    <3>4. cap[j].dcid_len = Len(p.cid)
      BY <1>2, <3>2, <3>3 DEF Comparable, Unshared
    <3>5. eff_len(p) = Len(p.cid)
      BY <2>1, <3>1, <3>4
    <3>6. QED
      BY <2>4, <3>5, KnownHash DEF flow_id
  <2>5. QED
    BY <2>3, <2>4
<1>3. Long(p) \/ Short(p)
  BY PacketsAssumption, Zenon DEF IsQuicForm, Long, Short
<1>4. QED
  BY <1>1, <1>2, <1>3

\* A record more does not change what the earlier ones say.
LEMMA AppendKeeps ==
  ASSUME NEW c \in Seq(Packets), NEW p \in Packets
  PROVE  LET n == Len(c)
             d == Append(c, p)
         IN  /\ n \in Nat /\ Len(d) = n + 1 /\ d \in Seq(Packets)
             /\ \A i \in 1 .. n : d[i] = c[i]
             /\ d[n + 1] = p
             /\ \A i \in 1 .. n : SwBucket(d, i) = SwBucket(c, i)
             /\ SwBucket(d, n + 1) = IF Long(p) \/ Taught(c, n, flow_key(p)) # {}
                                     THEN CidBucket(p.cid) ELSE ZeroBucket
             /\ \A k : Taught(d, n + 1, k) = Taught(c, n, k)
                         \cup (IF Handshake(p) /\ flow_key(p) = k THEN {n + 1} ELSE {})
             /\ \A b : SwHits(d, n + 1, b) = SwHits(c, n, b)
                         \cup (IF Quic(p) /\ SwBucket(d, n + 1) = b THEN {n + 1} ELSE {})
<1> DEFINE n == Len(c)
           d == Append(c, p)
<1>1. /\ n \in Nat /\ Len(d) = n + 1 /\ d \in Seq(Packets)
      /\ \A i \in 1 .. n : d[i] = c[i]
      /\ d[n + 1] = p
  BY AppendProperties
<1> HIDE DEF d, n
<1>2. /\ \A i \in 1 .. n : 1 .. i - 1 \subseteq 1 .. n
      /\ n + 1 - 1 = n /\ 1 .. n + 1 = (1 .. n) \cup {n + 1}
  BY <1>1
<1>3. \A i \in 1 .. n : KeySeen(d, i) <=> KeySeen(c, i)
  BY <1>1, <1>2 DEF KeySeen
<1>4. \A i \in 1 .. n : SwBucket(d, i) = SwBucket(c, i)
  BY <1>1, <1>3 DEF SwBucket
<1>5. KeySeen(d, n + 1) <=> Taught(c, n, flow_key(p)) # {}
  BY <1>1, <1>2 DEF KeySeen, Taught
<1>6. SwBucket(d, n + 1) = IF Long(p) \/ Taught(c, n, flow_key(p)) # {}
                           THEN CidBucket(p.cid) ELSE ZeroBucket
  BY <1>1, <1>5 DEF SwBucket
<1>7. \A k : Taught(d, n + 1, k) = Taught(c, n, k)
                \cup (IF Handshake(p) /\ flow_key(p) = k THEN {n + 1} ELSE {})
  BY <1>1, <1>2 DEF Taught
<1>8. \A b : SwHits(d, n + 1, b) = SwHits(c, n, b)
                \cup (IF Quic(p) /\ SwBucket(d, n + 1) = b THEN {n + 1} ELSE {})
  BY <1>1, <1>2, <1>4 DEF SwHits
<1>9. QED
  BY <1>1, <1>4, <1>6, <1>7, <1>8 DEF n, d

\* Registers and capture both start empty.
LEMMA SwitchInvInit == ASSUME PcapInit PROVE SwitchInv
<1>1. TypeOK
  BY InitType DEF PcapInit
<1>2. cap = <<>> /\ Len(cap) = 0 /\ cap \in Seq(Packets) /\ force_len = 0 /\ npackets = 0
  BY EmptySeq DEF PcapInit, Init
<1>3. \A k : Taught(cap, Len(cap), k) = {}
  BY <1>2 DEF Taught
<1>4. \A b : SwHits(cap, Len(cap), b) = {}
  BY <1>2 DEF SwHits
<1>5. \A k \in Keys : dcid_len_reg[k] = 0
  BY DEF PcapInit, Init
<1>6. \A b \in Buckets : quic_pkt_count[b] = 0
  BY DEF PcapInit, Init
<1>7. \A k \in Keys : KnownLen(cap, Len(cap), k, dcid_len_reg[k])
  BY <1>3, <1>5 DEF KnownLen
<1>8. \A b \in Buckets : quic_pkt_count[b] = Cardinality(SwHits(cap, Len(cap), b))
  BY <1>4, <1>6, FS_EmptySet
<1>9. QED
  BY <1>1, <1>2, <1>7, <1>8 DEF SwitchInv

\* A packet crosses switch and capture point: its cell and its bucket follow.
LEMMA SwitchInvTap ==
  ASSUME Comparable, SwitchInv, NEW p \in Packets, Process(p), Tap(p)
  PROVE  SwitchInv'
<1> DEFINE n == Len(cap)
           d == Append(cap, p)
<1>0. TypeOK /\ cap \in Seq(Packets) /\ force_len = 0 /\ npackets = n
  BY DEF SwitchInv
<1>1. /\ n \in Nat /\ Len(d) = n + 1 /\ d \in Seq(Packets)
      /\ \A i \in 1 .. n : d[i] = cap[i]
      /\ d[n + 1] = p
      /\ SwBucket(d, n + 1) = IF Long(p) \/ Taught(cap, n, flow_key(p)) # {}
                              THEN CidBucket(p.cid) ELSE ZeroBucket
      /\ \A k : Taught(d, n + 1, k) = Taught(cap, n, k)
                  \cup (IF Handshake(p) /\ flow_key(p) = k THEN {n + 1} ELSE {})
      /\ \A b : SwHits(d, n + 1, b) = SwHits(cap, n, b)
                  \cup (IF Quic(p) /\ SwBucket(d, n + 1) = b THEN {n + 1} ELSE {})
  BY <1>0, AppendKeeps
<1>2. cap' = d /\ npackets' = n + 1 /\ n < MaxPackets /\ force_len' = 0
  BY <1>0 DEF Process, Tap, tblVars
<1>3. TypeOK'
  BY <1>0, ProcessType
<1> HIDE DEF d
<1>4. ASSUME NEW k \in Keys PROVE KnownLen(d, n + 1, k, dcid_len_reg'[k])
  <2>0. KnownLen(cap, n, k, dcid_len_reg[k])
    BY DEF SwitchInv
  <2>1. CASE Handshake(p) /\ flow_key(p) = k
    <3>1. dcid_len_reg'[k] = p.dcid_len
      BY <2>1, <1>0 DEF Process, Learn, TypeOK
    <3>2. n + 1 \in Taught(d, n + 1, k)
      BY <1>1, <2>1
    <3>3. QED
      BY <1>1, <3>1, <3>2 DEF KnownLen
  <2>2. CASE ~(Handshake(p) /\ flow_key(p) = k)
    <3>1. dcid_len_reg'[k] = dcid_len_reg[k]
      BY <2>2, <1>0 DEF Process, Learn, TypeOK
    <3>2. Taught(d, n + 1, k) = Taught(cap, n, k)
      BY <1>1, <2>2
    <3>3. \A j \in Taught(cap, n, k) : d[j] = cap[j]
      BY <1>1 DEF Taught
    <3>4. QED
      BY <2>0, <3>1, <3>2, <3>3 DEF KnownLen
  <2>3. QED
    BY <2>1, <2>2
<1>5. ASSUME NEW b \in Buckets PROVE quic_pkt_count'[b] = Cardinality(SwHits(d, n + 1, b))
  <2> DEFINE H == SwHits(cap, n, b)
  <2>0. quic_pkt_count[b] = Cardinality(H)
    BY DEF SwitchInv
  <2>1. IsFiniteSet(H) /\ Cardinality(H) \in Nat /\ Cardinality(H) <= n /\ n + 1 \notin H
    <3>1. n + 1 \notin H
      BY <1>1 DEF SwHits
    <3>2. QED
      BY <1>1, <3>1, SwHitsFinite
  <2> HIDE DEF H
  <2>2. CASE Quic(p)
    <3>1. flow_id(p) = SwBucket(d, n + 1)
      BY <1>1, <2>2, FlowIdIs
    <3>2. quic_pkt_count' = [quic_pkt_count EXCEPT ![flow_id(p)] = count_quic(flow_id(p))]
      BY <2>2 DEF Process, Count
    <3>3. CASE flow_id(p) = b
      <4>1. SwHits(d, n + 1, b) = H \cup {n + 1}
        BY <1>1, <2>2, <3>1, <3>3 DEF H
      <4>2. Cardinality(H \cup {n + 1}) = Cardinality(H) + 1
        BY <2>1, FS_AddElement
      <4>3. quic_pkt_count'[b] = count_quic(b)
        BY <3>2, <3>3, <1>0 DEF TypeOK
      <4>4. Cardinality(H) + 1 \in 0 .. CntMod - 1
        BY <1>1, <1>2, <2>1, SizesAssumption DEF Comparable
      <4>5. \A x \in 0 .. CntMod - 1 : x % CntMod = x
        BY SizesAssumption
      <4>6. count_quic(b) = Cardinality(H) + 1
        BY <2>0, <4>4, <4>5 DEF count_quic
      <4>7. QED
        BY <4>1, <4>2, <4>3, <4>6
    <3>4. CASE flow_id(p) # b
      <4>1. SwHits(d, n + 1, b) = H
        BY <1>1, <3>1, <3>4 DEF H
      <4>2. quic_pkt_count'[b] = quic_pkt_count[b]
        BY <3>2, <3>4, <1>0 DEF TypeOK
      <4>3. QED
        BY <2>0, <4>1, <4>2
    <3>5. QED
      BY <3>3, <3>4
  <2>3. CASE ~Quic(p)
    <3>1. SwHits(d, n + 1, b) = H
      BY <1>1, <2>3 DEF H
    <3>2. quic_pkt_count' = quic_pkt_count
      BY <2>3 DEF Process
    <3>3. QED
      BY <2>0, <3>1, <3>2
  <2>4. QED
    BY <2>2, <2>3
<1>6. Len(cap') = n + 1 /\ cap' \in Seq(Packets)
  BY <1>1, <1>2
<1>7. \A k \in Keys : KnownLen(cap', Len(cap'), k, dcid_len_reg'[k])
  BY <1>2, <1>4, <1>6
<1>8. \A b \in Buckets : quic_pkt_count'[b] = Cardinality(SwHits(cap', Len(cap'), b))
  BY <1>2, <1>5, <1>6
<1>9. QED
  BY <1>2, <1>3, <1>6, <1>7, <1>8 DEF SwitchInv

\* Every step keeps the invariant of the switch; the tool leaves it alone.
LEMMA SwitchInvStep ==
  ASSUME Comparable, SwitchInv, [PcapNext]_pcapVars
  PROVE  SwitchInv'
<1>1. CASE \E p \in Packets : Process(p) /\ Tap(p)
  BY <1>1, SwitchInvTap
<1>2. CASE UNCHANGED <<vars, cap>>
  <2>1. /\ dcid_len_reg' = dcid_len_reg /\ quic_pkt_count' = quic_pkt_count
        /\ force_len' = force_len /\ npackets' = npackets /\ cap' = cap
    BY <1>2 DEF vars, regVars, tblVars
  <2>2. TypeOK'
    BY <1>2 DEF SwitchInv, TypeOK, vars, regVars, tblVars, dgstVars
  <2>3. QED
    BY <2>1, <2>2 DEF SwitchInv
<1>3. QED
  BY <1>1, <1>2 DEF PcapNext, Tool, Detect, LearnWorker, LearnDone, BucketWorker, BucketDone, pcapVars

-----------------------------------------------------------------------------
(* The replica and the capture *)

\* Some Handshake of the 4-tuple is in the capture, before or after.
TupleTaught(c, t) == \E j \in 1 .. Len(c) : Handshake(c[j]) /\ flow_tuple(c[j]) = t
Readable(c, i) == Long(c[i]) \/ TupleTaught(c, flow_tuple(c[i]))

\* What the tool has learned when it starts to count.
LEMMA LearnedWhat ==
  ASSUME Comparable, NEW c \in Seq(Packets), NEW t
  PROVE  LET lens == LearnedIn(c, 0, Len(c))
         IN  /\ t \in DOMAIN lens <=> TupleTaught(c, t)
             /\ t \in DOMAIN lens => \E j \in 1 .. Len(c) :
                  Handshake(c[j]) /\ flow_tuple(c[j]) = t /\ lens[t] = c[j].dcid_len
<1> DEFINE n == Len(c)
           lens == LearnedIn(c, 0, n)
<1>0. n \in Nat /\ 0 \in Int /\ n \in Int /\ 0 + 1 .. n = 1 .. n /\ \A j \in 1 .. n : c[j] \in Packets
  BY ElementOfSeq
<1>1. \A p \in Packets : Teaches(p) <=> Handshake(p)
  <2> SUFFICES ASSUME NEW p \in Packets PROVE Teaches(p) <=> Handshake(p)
    OBVIOUS
  <2>1. Sees(p) <=> Quic(p)
    BY DEF Comparable, Sees, Quic
  <2>2. QED
    BY <2>1 DEF Teaches, Handshake, Long
<1> HIDE DEF n
<1>2. DOMAIN lens = {flow_tuple(c[j]) : j \in Lessons(c, 0, n)}
  BY DEF LearnedIn
<1>3. Lessons(c, 0, n) = {j \in 1 .. n : Handshake(c[j])}
  BY <1>0, <1>1 DEF Lessons
<1>4. t \in DOMAIN lens <=> TupleTaught(c, t)
  BY <1>2, <1>3 DEF TupleTaught, n
<1>5. ASSUME t \in DOMAIN lens
      PROVE  \E j \in 1 .. n : Handshake(c[j]) /\ flow_tuple(c[j]) = t /\ lens[t] = c[j].dcid_len
  <2> DEFINE J == LessonsOn(c, 0, n, t)
  <2>1. J # {} /\ J = {j \in 1 .. n : Handshake(c[j]) /\ flow_tuple(c[j]) = t}
    BY <1>2, <1>3, <1>5 DEF LessonsOn
  <2>2. J \subseteq Int /\ IsFiniteSet(J)
    BY <1>0, LessonsFinite
  <2>3. lens[t] = c[Last(J)].dcid_len
    BY <1>2, <1>5 DEF LearnedIn
  <2> HIDE DEF J
  <2>4. Last(J) \in J
    BY <2>1, <2>2, LastIs
  <2>5. QED
    BY <2>1, <2>3, <2>4
<1>6. QED
  BY <1>4, <1>5 DEF n

\* The bytes read off a field: the ID if its length is known, none if not.
LEMMA ReadIs ==
  ASSUME Comparable, NEW p \in Packets, Quic(p), NEW lens
  PROVE  /\ LenOf(p, lens) = Len(p.cid) => ReadDcid(p, lens) = p.cid
         /\ LenOf(p, lens) = 0 => ReadDcid(p, lens) = <<>>
<1> DEFINE l == Len(p.cid)
           s == SubSeq(p.dcid, 1, l)
<1>1. l \in Nat /\ l <= DcidBytes
  BY KnownHash
<1>2. p.dcid \in Dcid /\ p.cid \in Seq(Byte) /\ Shows(p.dcid, p.cid)
  BY PacketFields, WireAssumption
<1>3. \A i \in 1 .. l : i \in 1 .. DcidBytes /\ p.dcid[i] = p.cid[i]
  <2> SUFFICES ASSUME NEW i \in 1 .. l PROVE i \in 1 .. DcidBytes /\ p.dcid[i] = p.cid[i]
    OBVIOUS
  <2>1. i \in 1 .. DcidBytes /\ i <= Len(p.cid)
    BY <1>1 DEF DcidBytes
  <2>2. QED
    BY <1>2, <2>1 DEF Shows
<1>4. \A i \in 1 .. l : p.dcid[i] \in Byte
  BY <1>2, <1>3 DEF Dcid
<1>5. 1 \in Int /\ l \in Int /\ l - 1 + 1 = l
  BY <1>1
<1> HIDE DEF l
<1>6. /\ s \in Seq(Byte)
      /\ Len(s) = IF 1 <= l THEN l - 1 + 1 ELSE 0
      /\ \A i \in 1 .. l - 1 + 1 : s[i] = p.dcid[1 + i - 1]
  BY <1>4, <1>5, SubSeqProperties
<1> HIDE DEF s
<1>7. Len(s) = Len(p.cid)
  BY <1>1, <1>6 DEF l
<1>8. \A i \in 1 .. Len(s) : s[i] = p.cid[i]
  <2> SUFFICES ASSUME NEW i \in 1 .. l PROVE s[i] = p.cid[i]
    BY <1>7 DEF l
  <2>1. 1 + i - 1 = i /\ i \in 1 .. l - 1 + 1
    BY <1>1
  <2>2. QED
    BY <2>1, <1>3, <1>6
<1>9. s = p.cid
  BY <1>2, <1>6, <1>7, <1>8, SeqEqual
<1>10. ASSUME LenOf(p, lens) = l PROVE ReadDcid(p, lens) = p.cid
  <2>1. ~(l > DcidBytes)
    BY <1>1 DEF DcidBytes
  <2>2. QED
    BY <1>9, <1>10, <2>1 DEF ReadDcid, s
<1>11. ASSUME LenOf(p, lens) = 0 PROVE ReadDcid(p, lens) = <<>>
  <2>1. ~(0 > DcidBytes)
    BY DEF DcidBytes
  <2>2. ReadDcid(p, lens) = SubSeq(p.dcid, 1, 0)
    BY <1>11, <2>1 DEF ReadDcid
  <2>3. 1 \in Int /\ 0 \in Int /\ 0 < 1
    OBVIOUS
  <2>4. SubSeq(p.dcid, 1, 0) = <<>>
    BY <2>3, SubSeqEmpty
  <2>5. QED
    BY <2>2, <2>4
<1>12. QED
  BY <1>10, <1>11 DEF l

\* The ID and the bucket the tool finds for record i.
LEMMA ReplicaReads ==
  ASSUME Comparable, NEW c \in Seq(Packets), NEW i \in 1 .. Len(c), Sees(c[i])
  PROVE  LET lens == LearnedIn(c, 0, Len(c))
         IN  /\ ReadDcid(c[i], lens) = IF Readable(c, i) THEN c[i].cid ELSE <<>>
             /\ BucketOf(c, lens, i) = IF Readable(c, i) THEN CidBucket(c[i].cid) ELSE ZeroBucket
<1> DEFINE p == c[i]
           t == flow_tuple(p)
           lens == LearnedIn(c, 0, Len(c))
<1>1. p \in Packets /\ \A j \in 1 .. Len(c) : c[j] \in Packets
  BY ElementOfSeq
<1>2. Quic(p)
  BY <1>1 DEF Comparable
<1>3. /\ t \in DOMAIN lens <=> TupleTaught(c, t)
      /\ t \in DOMAIN lens => \E j \in 1 .. Len(c) :
            Handshake(c[j]) /\ flow_tuple(c[j]) = t /\ lens[t] = c[j].dcid_len
  BY LearnedWhat
<1> HIDE DEF lens
<1>4. CASE Long(p)
  <2>1. LenOf(p, lens) = Len(p.cid)
    BY <1>1, <1>2, <1>4, WireAssumption DEF LenOf, Long
  <2>2. ReadDcid(p, lens) = p.cid
    BY <1>1, <1>2, <2>1, ReadIs
  <2>3. QED
    BY <1>4, <2>2 DEF BucketOf, bucket, CidBucket, dcid_hash, Readable, lens
<1>5. CASE Short(p)
  <2>0. p.form # "long" /\ ~Long(p)
    BY <1>5 DEF Short, Long
  <2>1. CASE TupleTaught(c, t)
    <3>1. PICK j \in 1 .. Len(c) : Handshake(c[j]) /\ flow_tuple(c[j]) = t /\ lens[t] = c[j].dcid_len
      BY <1>3, <2>1
    <3>2. flow_key(c[j]) = flow_key(p)
      BY <3>1 DEF flow_key
    <3>3. c[j].dcid_len = Len(p.cid)
      BY <1>1, <1>5, <3>1, <3>2 DEF Comparable, Unshared
    <3>4. LenOf(p, lens) = Len(p.cid)
      BY <1>3, <2>0, <2>1, <3>1, <3>3 DEF LenOf
    <3>5. ReadDcid(p, lens) = p.cid
      BY <1>1, <1>2, <3>4, ReadIs
    <3>6. QED
      BY <2>1, <3>5 DEF BucketOf, bucket, CidBucket, dcid_hash, Readable, lens
  <2>2. CASE ~TupleTaught(c, t)
    <3>1. LenOf(p, lens) = 0
      BY <1>3, <2>0, <2>2 DEF LenOf
    <3>2. ReadDcid(p, lens) = <<>>
      BY <1>1, <1>2, <3>1, ReadIs
    <3>3. QED
      BY <2>0, <2>2, <3>2 DEF BucketOf, bucket, ZeroBucket, CidBucket, dcid_hash, Readable, lens
  <2>3. QED
    BY <2>1, <2>2
<1>6. Long(p) \/ Short(p)
  BY <1>1, <1>2, PacketsAssumption, Zenon DEF IsQuicForm, Long, Short
<1>7. QED
  BY <1>4, <1>5, <1>6

\* What the tool reports, record by record.
RpCid(c, i) == IF Readable(c, i) THEN c[i].cid ELSE <<>>
RpBucket(c, i) == IF Readable(c, i) THEN CidBucket(c[i].cid) ELSE ZeroBucket
RpHits(b) == {i \in Frames : RpBucket(cap, i) = b}

\* The finished report, record by record.
LEMMA ResultIs ==
  ASSUME Comparable, ToolInv, tool = "done"
  PROVE  /\ result.pkts = [b \in Buckets |-> Cardinality(RpHits(b))]
         /\ result.pairs = {<<RpCid(cap, i), RpBucket(cap, i)>> : i \in Frames}
<1> DEFINE n == Len(cap)
           lens == LearnedIn(cap, 0, n)
<1>1. cap \in Seq(Packets) /\ result = BucketPhase(cap, LearnPhase(cap))
  BY DEF ToolInv, CutInv, ShardedIsSerial
<1>2. n \in Nat /\ 0 \in Int /\ n \in Int /\ 0 <= n /\ 0 + 1 .. n = 1 .. n
  BY <1>1
<1>3. LearnPhase(cap) = lens
  BY <1>1, <1>2, CaptureIs, LearnPhaseIs
<1>4. result = CountedIn(cap, lens, 0, n)
  <2>1. BucketPhase(cap, lens) = CountedIn(cap, lens, 0, n)
    <3> HIDE DEF lens
    <3>1. QED
      BY <1>1, <1>2, CaptureIs, BucketPhaseIs
  <2>2. QED
    BY <1>1, <1>3, <2>1
<1>5. Seen(cap, 0, n) = Frames
  BY <1>2 DEF Seen, Frames
<1>6. \A i \in Frames : /\ ReadDcid(cap[i], lens) = RpCid(cap, i)
                       /\ BucketOf(cap, lens, i) = RpBucket(cap, i)
  BY <1>1, ReplicaReads DEF Frames, RpCid, RpBucket
<1> HIDE DEF lens, n
<1>7. \A b : Hits(cap, lens, 0, n, b) = RpHits(b)
  BY <1>5, <1>6 DEF Hits, RpHits
<1>8. PairsIn(cap, lens, 0, n) = {<<RpCid(cap, i), RpBucket(cap, i)>> : i \in Frames}
  BY <1>5, <1>6 DEF PairsIn
<1>9. QED
  BY <1>4, <1>7, <1>8 DEF CountedIn

\* The frames tshark and the tool see are the QUIC packets of the switch.
LEMMA FramesAre ==
  ASSUME Comparable, cap \in Seq(Packets)
  PROVE  /\ Len(cap) \in Nat
         /\ IsFiniteSet(Frames) /\ Frames \subseteq 1 .. Len(cap)
         /\ Frames = {i \in 1 .. Len(cap) : Quic(cap[i])}
         /\ \A i \in Frames :
              /\ cap[i] \in Packets /\ Quic(cap[i])
              /\ Long(cap[i]) \/ Short(cap[i])
              /\ CidBucket(cap[i].cid) \in Buckets /\ ZeroBucket \in Buckets
<1>1. Len(cap) \in Nat /\ 1 \in Int /\ Len(cap) \in Int
  OBVIOUS
<1>2. \A i \in 1 .. Len(cap) : cap[i] \in Packets
  BY ElementOfSeq
<1>3. Frames = {i \in 1 .. Len(cap) : Quic(cap[i])}
  <2>1. \A p \in Packets : Sees(p) <=> Quic(p)
    BY DEF Comparable, Sees, Quic
  <2>2. QED
    BY <1>2, <2>1 DEF Frames
<1>4. IsFiniteSet(1 .. Len(cap)) /\ Frames \subseteq 1 .. Len(cap)
  BY <1>1, FS_Interval DEF Frames
<1>5. IsFiniteSet(Frames)
  BY <1>4, FS_Subset
<1>6. ASSUME NEW i \in Frames
      PROVE  /\ cap[i] \in Packets /\ Quic(cap[i])
             /\ Long(cap[i]) \/ Short(cap[i])
             /\ CidBucket(cap[i].cid) \in Buckets /\ ZeroBucket \in Buckets
  <2>1. cap[i] \in Packets /\ Quic(cap[i])
    BY <1>2, <1>3
  <2>2. Long(cap[i]) \/ Short(cap[i])
    BY <2>1, PacketsAssumption, Zenon DEF IsQuicForm, Long, Short
  <2>3. QED
    BY <2>1, <2>2, KnownHash
<1>7. QED
  BY <1>1, <1>3, <1>4, <1>5, <1>6

\* On an orderly capture both know every length.
LEMMA OrderlyKnows ==
  ASSUME Comparable, cap \in Seq(Packets), Orderly, NEW i \in Frames
  PROVE  /\ Readable(cap, i)
         /\ SwBucket(cap, i) = CidBucket(cap[i].cid)
<1>1. /\ cap[i] \in Packets /\ Quic(cap[i]) /\ i \in 1 .. Len(cap) /\ Len(cap) \in Nat
      /\ Long(cap[i]) \/ Short(cap[i])
  BY FramesAre
<1>2. CASE Long(cap[i])
  BY <1>2 DEF Readable, SwBucket
<1>3. CASE Short(cap[i])
  <2>1. PICK j \in 1 .. i - 1 : Handshake(cap[j]) /\ flow_tuple(cap[j]) = flow_tuple(cap[i])
    BY <1>1, <1>3 DEF Orderly
  <2>2. j \in 1 .. Len(cap)
    BY <1>1
  <2>3. TupleTaught(cap, flow_tuple(cap[i]))
    BY <2>1, <2>2 DEF TupleTaught
  <2>4. flow_key(cap[j]) = flow_key(cap[i])
    BY <2>1 DEF flow_key
  <2>5. KeySeen(cap, i)
    BY <2>1, <2>4 DEF KeySeen
  <2>6. QED
    BY <2>3, <2>5 DEF Readable, SwBucket
<1>4. QED
  BY <1>1, <1>2, <1>3

\* The count of a bucket is the number of frames the switch gave it.
LEMMA SwitchHits ==
  ASSUME Comparable, SwitchInv
  PROVE  /\ \A b : SwHits(cap, Len(cap), b) = {i \in Frames : SwBucket(cap, i) = b}
         /\ \A b \in Buckets : quic_pkt_count[b] = Cardinality({i \in Frames : SwBucket(cap, i) = b})
<1>1. cap \in Seq(Packets)
  BY DEF SwitchInv
<1>2. \A b : SwHits(cap, Len(cap), b) = {i \in Frames : SwBucket(cap, i) = b}
  BY <1>1, FramesAre DEF SwHits
<1>3. QED
  BY <1>2 DEF SwitchInv

\* Both know every length on an orderly capture, so they count alike.
LEMMA ParityHolds ==
  ASSUME Comparable, SwitchInv, ToolInv
  PROVE  ParityWithSwitch
<1> SUFFICES ASSUME tool = "done", Orderly PROVE result.pkts = quic_pkt_count
  BY DEF ParityWithSwitch
<1>1. cap \in Seq(Packets) /\ quic_pkt_count \in [Buckets -> 0 .. CntMod - 1]
  BY DEF SwitchInv, TypeOK
<1>2. \A i \in Frames : RpBucket(cap, i) = SwBucket(cap, i)
  BY <1>1, OrderlyKnows DEF RpBucket
<1>3. \A b : RpHits(b) = {i \in Frames : SwBucket(cap, i) = b}
  BY <1>2 DEF RpHits
<1>4. \A b \in Buckets : quic_pkt_count[b] = Cardinality(RpHits(b))
  BY <1>3, SwitchHits
<1>5. result.pkts = [b \in Buckets |-> Cardinality(RpHits(b))]
  BY ResultIs
<1>6. QED
  BY <1>1, <1>4, <1>5

\* "mirroring p4src/ingress.p4 exactly", for every capture.
THEOREM ParityInvariant ==
  ASSUME Comparable
  PROVE  PcapSpec => []ParityWithSwitch
<1>1. PcapInit => ToolInv /\ SwitchInv
  BY ToolInit, SwitchInvInit
<1>2. ToolInv /\ SwitchInv /\ [PcapNext]_pcapVars => ToolInv' /\ SwitchInv'
  BY ToolStep, SwitchInvStep
<1>3. ToolInv /\ SwitchInv => ParityWithSwitch
  BY ParityHolds
<1>4. QED
  BY <1>1, <1>2, <1>3, PTL DEF PcapSpec

\* What the switch knows in time the replica knows.
LEMMA SwitchKnows ==
  ASSUME Comparable, OwnKeys, cap \in Seq(Packets), NEW i \in Frames, SwBucket(cap, i) # ZeroBucket
  PROVE  Readable(cap, i) /\ SwBucket(cap, i) = CidBucket(cap[i].cid)
<1>1. /\ cap[i] \in Packets /\ i \in 1 .. Len(cap) /\ Len(cap) \in Nat
      /\ Long(cap[i]) \/ Short(cap[i])
  BY FramesAre
<1>2. SwBucket(cap, i) = CidBucket(cap[i].cid) /\ (Long(cap[i]) \/ KeySeen(cap, i))
  BY DEF SwBucket
<1>3. CASE Long(cap[i])
  BY <1>2, <1>3 DEF Readable
<1>4. CASE Short(cap[i]) /\ ~Long(cap[i])
  <2>1. PICK j \in 1 .. i - 1 : Handshake(cap[j]) /\ flow_key(cap[j]) = flow_key(cap[i])
    BY <1>2, <1>4 DEF KeySeen
  <2>2. j \in 1 .. Len(cap)
    BY <1>1
  <2>3. cap[j] \in Packets
    BY <2>2, ElementOfSeq
  <2>4. flow_tuple(cap[j]) = flow_tuple(cap[i])
    BY <1>1, <1>4, <2>1, <2>3 DEF OwnKeys
  <2>5. TupleTaught(cap, flow_tuple(cap[i]))
    BY <2>1, <2>2, <2>4 DEF TupleTaught
  <2>6. QED
    BY <1>2, <2>5 DEF Readable
<1>5. QED
  BY <1>1, <1>3, <1>4

\* Outside the bucket of the empty mask the replica misses no packet.
LEMMA UpToLearningHolds ==
  ASSUME Comparable, OwnKeys, SwitchInv, ToolInv
  PROVE  ParityUpToLearning
<1> SUFFICES ASSUME tool = "done"
             PROVE  /\ \A b \in Buckets \ {ZeroBucket} : quic_pkt_count[b] <= result.pkts[b]
                    /\ SumFunction(quic_pkt_count) = SumFunction(result.pkts)
  BY DEF ParityUpToLearning
<1>1. cap \in Seq(Packets) /\ quic_pkt_count \in [Buckets -> 0 .. CntMod - 1]
  BY DEF SwitchInv, TypeOK
<1>2. result.pkts = [b \in Buckets |-> Cardinality(RpHits(b))]
  BY ResultIs
<1>3. IsFiniteSet(Frames)
  BY <1>1, FramesAre
<1>4. ASSUME NEW b \in Buckets \ {ZeroBucket} PROVE quic_pkt_count[b] <= result.pkts[b]
  <2> DEFINE H == {i \in Frames : SwBucket(cap, i) = b}
  <2>1. H \subseteq RpHits(b)
    <3> SUFFICES ASSUME NEW i \in Frames, SwBucket(cap, i) = b PROVE i \in RpHits(b)
      OBVIOUS
    <3>1. Readable(cap, i) /\ SwBucket(cap, i) = CidBucket(cap[i].cid)
      BY <1>1, SwitchKnows
    <3>2. QED
      BY <3>1 DEF RpHits, RpBucket
  <2>2. IsFiniteSet(RpHits(b))
    BY <1>3, FS_Subset DEF RpHits
  <2>3. quic_pkt_count[b] = Cardinality(H)
    BY SwitchHits
  <2> HIDE DEF H
  <2>4. Cardinality(H) <= Cardinality(RpHits(b))
    BY <2>1, <2>2, FS_Subset
  <2>5. QED
    BY <1>2, <2>3, <2>4
<1>5. IsFiniteSet(Buckets)
  BY FS_Interval, SizesAssumption DEF Buckets
<1>6. SumFunctionOnSet(quic_pkt_count, Buckets) = Cardinality(Frames)
  <2> DEFINE g == [i \in Frames |-> SwBucket(cap, i)]
  <2>1. \A i \in Frames : g[i] \in Buckets
    BY <1>1, FramesAre DEF SwBucket
  <2>2. \A b \in Buckets : quic_pkt_count[b] = Cardinality(Fibre(g, Frames, b))
    <3> SUFFICES ASSUME NEW b \in Buckets PROVE quic_pkt_count[b] = Cardinality(Fibre(g, Frames, b))
      OBVIOUS
    <3>1. Fibre(g, Frames, b) = {i \in Frames : SwBucket(cap, i) = b}
      BY DEF Fibre
    <3>2. QED
      BY <3>1, SwitchHits
  <2> HIDE DEF g
  <2>3. QED
    BY <1>3, <1>5, <2>1, <2>2, CardParts
<1>7. SumFunctionOnSet(result.pkts, Buckets) = Cardinality(Frames)
  <2> DEFINE g == [i \in Frames |-> RpBucket(cap, i)]
             c == result.pkts
  <2>1. \A i \in Frames : g[i] \in Buckets
    BY <1>1, FramesAre DEF RpBucket
  <2>2. \A b \in Buckets : c[b] = Cardinality(Fibre(g, Frames, b))
    <3> SUFFICES ASSUME NEW b \in Buckets PROVE c[b] = Cardinality(Fibre(g, Frames, b))
      OBVIOUS
    <3>1. Fibre(g, Frames, b) = RpHits(b)
      BY DEF RpHits, Fibre
    <3>2. QED
      BY <1>2, <3>1
  <2> HIDE DEF g, c
  <2>3. SumFunctionOnSet(c, Buckets) = Cardinality(Frames)
    BY <1>3, <1>5, <2>1, <2>2, CardParts
  <2>4. QED
    BY <2>3 DEF c
<1>8. DOMAIN quic_pkt_count = Buckets /\ DOMAIN result.pkts = Buckets
  BY <1>1, <1>2
<1>9. SumFunction(quic_pkt_count) = SumFunction(result.pkts)
  BY <1>6, <1>7, <1>8 DEF SumFunction
<1>10. QED
  BY <1>4, <1>9

\* On any capture, replica and switch differ by what crossed before its length
\* was known, and in the bucket of the empty mask only.
THEOREM UpToLearningInvariant ==
  ASSUME Comparable, OwnKeys
  PROVE  PcapSpec => []ParityUpToLearning
<1>1. PcapInit => ToolInv /\ SwitchInv
  BY ToolInit, SwitchInvInit
<1>2. ToolInv /\ SwitchInv /\ [PcapNext]_pcapVars => ToolInv' /\ SwitchInv'
  BY ToolStep, SwitchInvStep
<1>3. ToolInv /\ SwitchInv => ParityUpToLearning
  BY UpToLearningHolds
<1>4. QED
  BY <1>1, <1>2, <1>3, PTL DEF PcapSpec

-----------------------------------------------------------------------------
(* The report of pcap_buckets.py *)

\* The buckets counting on the switch are those of its packets.
LEMMA CountingBuckets ==
  ASSUME Comparable, SwitchInv, NEW b \in Buckets
  PROVE  quic_pkt_count[b] > 0 <=> \E i \in Frames : SwBucket(cap, i) = b
<1> DEFINE H == {i \in Frames : SwBucket(cap, i) = b}
<1>1. IsFiniteSet(Frames)
  BY FramesAre DEF SwitchInv
<1>2. IsFiniteSet(H) /\ quic_pkt_count[b] = Cardinality(H)
  BY <1>1, SwitchHits, FS_Subset
<1>3. H # {} <=> \E i \in Frames : SwBucket(cap, i) = b
  OBVIOUS
<1> HIDE DEF H
<1>4. Cardinality(H) \in Nat /\ (Cardinality(H) = 0 <=> H = {})
  BY <1>2, FS_CardinalityType, FS_EmptySet
<1>5. QED
  BY <1>2, <1>3, <1>4

\* The true IDs of the capture, and those of a bucket.
CapCids == {cap[i].cid : i \in Frames}
CidsAt(b) == {c \in CapCids : CidBucket(c) = b}
FrameBucket(i) == CidBucket(cap[i].cid)
FramesAt(b) == {i \in Frames : FrameBucket(i) = b}

\* On an orderly capture the report is about them.
LEMMA OrderlyReport ==
  ASSUME Comparable, SwitchInv, ToolInv, tool = "done", Orderly
  PROVE  /\ result.pairs = {<<cap[i].cid, FrameBucket(i)>> : i \in Frames}
         /\ \A b \in Buckets : /\ result.pkts[b] = Cardinality(FramesAt(b))
                               /\ quic_pkt_count[b] = Cardinality(FramesAt(b))
         /\ \A i \in Frames : FrameBucket(i) \in Buckets /\ SwBucket(cap, i) = FrameBucket(i)
<1>1. cap \in Seq(Packets)
  BY DEF SwitchInv
<1>2. \A i \in Frames : /\ RpCid(cap, i) = cap[i].cid /\ RpBucket(cap, i) = FrameBucket(i)
                        /\ SwBucket(cap, i) = FrameBucket(i) /\ FrameBucket(i) \in Buckets
  BY <1>1, OrderlyKnows, FramesAre DEF RpCid, RpBucket, FrameBucket
<1>3. /\ result.pkts = [b \in Buckets |-> Cardinality(RpHits(b))]
      /\ result.pairs = {<<RpCid(cap, i), RpBucket(cap, i)>> : i \in Frames}
  BY ResultIs
<1>4. result.pairs = {<<cap[i].cid, FrameBucket(i)>> : i \in Frames}
  BY <1>2, <1>3
<1>5. \A b : RpHits(b) = FramesAt(b)
  BY <1>2 DEF RpHits, FramesAt
<1>6. \A b \in Buckets : result.pkts[b] = Cardinality(FramesAt(b))
  BY <1>3, <1>5
<1>7. result.pkts = quic_pkt_count
  BY ParityHolds DEF ParityWithSwitch
<1>8. QED
  BY <1>2, <1>4, <1>6, <1>7

\* Its IDs, its buckets and its collisions are the true ones.
LEMMA OrderlyCids ==
  ASSUME Comparable, SwitchInv, ToolInv, tool = "done", Orderly
  PROVE  /\ distinctCids = CapCids
         /\ \A b : cidsIn(b) = CidsAt(b)
         /\ IsFiniteSet(CapCids) /\ \A b : IsFiniteSet(CidsAt(b))
         /\ \A c \in CapCids : CidBucket(c) \in Buckets
         /\ collisions = {b \in Buckets : Cardinality(CidsAt(b)) > 1}
<1> DEFINE pairs == result.pairs
<1>1. /\ pairs = {<<cap[i].cid, FrameBucket(i)>> : i \in Frames}
      /\ \A i \in Frames : FrameBucket(i) \in Buckets
  BY OrderlyReport
<1>3. pairs = {<<c, CidBucket(c)>> : c \in CapCids}
  BY <1>1 DEF CapCids, FrameBucket
<1>3a. /\ \A x \in pairs : x[1] \in CapCids /\ x[2] = CidBucket(x[1])
       /\ \A c \in CapCids : \E x \in pairs : x[1] = c /\ x[2] = CidBucket(c)
  <2> HIDE DEF pairs
  <2>1. ASSUME NEW x \in pairs PROVE x[1] \in CapCids /\ x[2] = CidBucket(x[1])
    <3>1. PICK c \in CapCids : x = <<c, CidBucket(c)>>
      BY <1>3
    <3>2. QED
      BY <3>1
  <2>2. ASSUME NEW c \in CapCids PROVE \E x \in pairs : x[1] = c /\ x[2] = CidBucket(c)
    <3>1. <<c, CidBucket(c)>> \in pairs
      BY <1>3
    <3>2. QED
      BY <3>1
  <2>3. QED
    BY <2>1, <2>2
<1>2. distinctCids = CapCids
  <2>1. distinctCids = {x[1] : x \in pairs}
    BY DEF distinctCids
  <2> HIDE DEF pairs
  <2>2. QED
    BY <1>3a, <2>1
<1>4. \A b : cidsIn(b) = CidsAt(b)
  <2> SUFFICES ASSUME NEW b PROVE cidsIn(b) = CidsAt(b)
    OBVIOUS
  <2>1. cidsIn(b) = {x[1] : x \in {y \in pairs : y[2] = b}}
    BY DEF cidsIn
  <2> HIDE DEF pairs
  <2>2. QED
    BY <1>3a, <2>1 DEF CidsAt
<1>5. IsFiniteSet(CapCids)
  <2> DEFINE f == [i \in Frames |-> cap[i].cid]
  <2>1. CapCids = {f[i] : i \in Frames}
    BY DEF CapCids
  <2>2. IsFiniteSet(Frames)
    BY FramesAre DEF SwitchInv
  <2> HIDE DEF f
  <2>3. QED
    BY <2>1, <2>2, ImageFinite
<1>6. \A b : IsFiniteSet(CidsAt(b))
  BY <1>5, FS_Subset DEF CidsAt
<1>7. \A c \in CapCids : CidBucket(c) \in Buckets
  BY <1>1 DEF CapCids, FrameBucket
<1>8. \A b : Cardinality({x \in pairs : x[2] = b}) = Cardinality(CidsAt(b))
  <2> SUFFICES ASSUME NEW b PROVE Cardinality({x \in pairs : x[2] = b}) = Cardinality(CidsAt(b))
    OBVIOUS
  <2>1. {x \in pairs : x[2] = b} = {<<c, b>> : c \in CidsAt(b)}
    BY <1>3 DEF CidsAt
  <2>2. Cardinality({<<c, b>> : c \in CidsAt(b)}) = Cardinality(CidsAt(b))
    BY <1>6, CardTagged
  <2>3. QED
    BY <2>1, <2>2
<1>9. collisions = {b \in Buckets : Cardinality(CidsAt(b)) > 1}
  BY <1>8 DEF collisions
<1>10. QED
  BY <1>2, <1>4, <1>5, <1>6, <1>7, <1>9

\* Connections kept apart: as many as their IDs have buckets.
LEMMA SeparatedIs ==
  ASSUME Comparable, SwitchInv, ToolInv, tool = "done", Orderly
  PROVE  separated = Cardinality({CidBucket(c) : c \in CapCids})
<1> DEFINE U == {CidBucket(c) : c \in CapCids}
           C == collisions
           Z == U \ C
           n == [b \in U |-> Cardinality(CidsAt(b))]
           m == [b \in C |-> Cardinality(cidsIn(b))]
           g == [c \in CapCids |-> CidBucket(c)]
<1>1. /\ distinctCids = CapCids
      /\ \A b : cidsIn(b) = CidsAt(b)
      /\ IsFiniteSet(CapCids) /\ \A b : IsFiniteSet(CidsAt(b))
      /\ \A c \in CapCids : CidBucket(c) \in Buckets
      /\ C = {b \in Buckets : Cardinality(CidsAt(b)) > 1}
  BY OrderlyCids
<1>2. \A b : Cardinality(CidsAt(b)) \in Nat /\ (Cardinality(CidsAt(b)) = 0 <=> CidsAt(b) = {})
  BY <1>1, FS_CardinalityType, FS_EmptySet
<1>3. \A b : b \in U <=> CidsAt(b) # {}
  BY DEF CidsAt
<1>4. C \subseteq U
  BY <1>1, <1>2, <1>3
<1>5. IsFiniteSet(U)
  <2>1. U = {g[c] : c \in CapCids}
    OBVIOUS
  <2> HIDE DEF g, U
  <2>2. QED
    BY <1>1, <2>1, ImageFinite
<1>6. IsFiniteSet(C) /\ IsFiniteSet(Z) /\ C \cap Z = {} /\ C \cup Z = U
  BY <1>4, <1>5, FS_Subset
<1>7. \A b \in U : n[b] = Cardinality(CidsAt(b)) /\ n[b] \in Int
  BY <1>2
<1>8. SumFunctionOnSet(n, U) = Cardinality(CapCids)
  <2>1. \A c \in CapCids : g[c] \in U
    OBVIOUS
  <2>2. \A b \in U : Fibre(g, CapCids, b) = CidsAt(b)
    BY DEF Fibre, CidsAt
  <2>3. \A b \in U : n[b] = Cardinality(Fibre(g, CapCids, b))
    BY <1>7, <2>2
  <2> HIDE DEF g, n, U
  <2>4. QED
    BY <1>1, <1>5, <2>1, <2>3, CardParts
<1>9. \A b \in Z : n[b] = 1
  <2> SUFFICES ASSUME NEW b \in Z PROVE n[b] = 1
    OBVIOUS
  <2>1. b \in U /\ b \notin C /\ b \in Buckets
    BY <1>1
  <2>2. ~(Cardinality(CidsAt(b)) > 1) /\ Cardinality(CidsAt(b)) # 0
    BY <1>1, <1>2, <1>3, <2>1
  <2>3. QED
    BY <1>2, <1>7, <2>1, <2>2
<1>10. SumFunction(m) = SumFunctionOnSet(n, C)
  <2>1. DOMAIN m = C /\ \A b \in C : m[b] \in Int /\ m[b] = n[b]
    BY <1>1, <1>2, <1>4
  <2> HIDE DEF m, n, C
  <2>2. SumFunctionOnSet(m, C) = SumFunctionOnSet(n, C)
    BY <1>6, <2>1, SumSame
  <2>3. QED
    BY <2>1, <2>2 DEF SumFunction
<1>11. cids_collided = SumFunction(m)
  BY DEF cids_collided
<1> HIDE DEF n, m, g, U, C, Z
<1>12. SumFunctionOnSet(n, C \cup Z) = SumFunctionOnSet(n, C) + SumFunctionOnSet(n, Z)
  BY <1>6, <1>7, SumDisjoint
<1>13. SumFunctionOnSet(n, Z) = Cardinality(Z)
  BY <1>6, <1>9, SumOnes
<1>14. Cardinality(U) = Cardinality(C) + Cardinality(Z)
  <2>1. Cardinality(C \cup Z) = Cardinality(C) + Cardinality(Z) - Cardinality(C \cap Z)
    BY <1>6, FS_Union
  <2>2. Cardinality(C \cap Z) = 0
    BY <1>6, FS_EmptySet
  <2>3. Cardinality(C) \in Nat /\ Cardinality(Z) \in Nat
    BY <1>6, FS_CardinalityType
  <2>4. Cardinality(U) = Cardinality(C \cup Z)
    BY <1>6
  <2>5. QED
    BY <2>1, <2>2, <2>3, <2>4
<1>15. /\ Cardinality(C) \in Nat /\ Cardinality(Z) \in Nat /\ SumFunctionOnSet(n, C) \in Int
  BY <1>4, <1>6, <1>7, FS_CardinalityType, SumInt
<1>16. separated = Cardinality(CapCids) - SumFunctionOnSet(n, C) + Cardinality(C)
  BY <1>1, <1>10, <1>11 DEF separated, C
<1>17. Cardinality(CapCids) = SumFunctionOnSet(n, C) + Cardinality(Z)
  BY <1>6, <1>8, <1>12, <1>13
<1>18. separated = Cardinality(U)
  BY <1>14, <1>15, <1>16, <1>17
<1>19. QED
  BY <1>18 DEF U

\* The packets affected: those whose bucket another captured ID shares.
LEMMA AffectedAre ==
  ASSUME Comparable, SwitchInv, ToolInv, tool = "done", Orderly
  PROVE  pkts_collided = Cardinality({i \in Frames : Cardinality(CidsAt(FrameBucket(i))) > 1})
<1> DEFINE C == collisions
           S == {i \in Frames : Cardinality(CidsAt(FrameBucket(i))) > 1}
           g == [i \in S |-> FrameBucket(i)]
           m == [b \in C |-> result.pkts[b]]
<1>1. C = {b \in Buckets : Cardinality(CidsAt(b)) > 1}
  BY OrderlyCids
<1>2. /\ \A b \in Buckets : result.pkts[b] = Cardinality(FramesAt(b))
      /\ \A i \in Frames : FrameBucket(i) \in Buckets
  BY OrderlyReport
<1>3. IsFiniteSet(S)
  <2>1. IsFiniteSet(Frames)
    BY FramesAre DEF SwitchInv
  <2>2. QED
    BY <2>1, FS_Subset
<1>4. IsFiniteSet(C)
  <2>1. IsFiniteSet(Buckets)
    BY FS_Interval, SizesAssumption DEF Buckets
  <2>2. QED
    BY <1>1, <2>1, FS_Subset
<1>5. \A i \in S : g[i] \in C
  BY <1>1, <1>2
<1>6. \A b \in C : Fibre(g, S, b) = FramesAt(b)
  BY <1>1 DEF Fibre, FramesAt
<1>7. \A b \in C : m[b] = Cardinality(Fibre(g, S, b))
  BY <1>1, <1>2, <1>6
<1>8. DOMAIN m = C /\ pkts_collided = SumFunction(m)
  BY DEF pkts_collided
<1> HIDE DEF m, g, S, C
<1>9. SumFunctionOnSet(m, C) = Cardinality(S)
  BY <1>3, <1>4, <1>5, <1>7, CardParts
<1>10. pkts_collided = Cardinality(S)
  BY <1>8, <1>9 DEF SumFunction
<1>11. QED
  BY <1>10 DEF S

\* The --switch report: buckets on either side, collisions, separated, affected.
LEMMA CrossCheckHolds ==
  ASSUME Comparable, OwnKeys, SwitchInv, ToolInv
  PROVE  CrossCheckQuiet
<1> SUFFICES ASSUME tool = "done"
             PROVE  /\ sw_only \subseteq {ZeroBucket}
                    /\ Orderly =>
                         LET cid(i) == cap[i].cid
                             cids == {cid(i) : i \in Frames}
                             of(b) == {c \in cids : CidBucket(c) = b}
                         IN  /\ sw_only = {} /\ pc_only = {}
                             /\ distinctCids = cids
                             /\ collisions = {b \in Buckets : Cardinality(of(b)) > 1}
                             /\ separated = Cardinality({CidBucket(c) : c \in cids})
                             /\ pkts_collided = Cardinality({i \in Frames :
                                                  Cardinality(of(CidBucket(cid(i)))) > 1})
  BY DEF CrossCheckQuiet
<1>1. cap \in Seq(Packets)
  BY DEF SwitchInv
<1>2. pcapBuckets = {RpBucket(cap, i) : i \in Frames}
  <2>1. result.pairs = {<<RpCid(cap, i), RpBucket(cap, i)>> : i \in Frames}
    BY ResultIs
  <2>2. \A x \in result.pairs : \E i \in Frames : x[2] = RpBucket(cap, i)
    BY <2>1
  <2>3. ASSUME NEW i \in Frames PROVE \E x \in result.pairs : x[2] = RpBucket(cap, i)
    <3>1. <<RpCid(cap, i), RpBucket(cap, i)>> \in result.pairs
      BY <2>1
    <3>2. QED
      BY <3>1
  <2>4. QED
    BY <2>2, <2>3 DEF pcapBuckets
<1>3. sw = {b \in Buckets : \E i \in Frames : SwBucket(cap, i) = b}
  BY CountingBuckets DEF sw
<1>4. sw_only \subseteq {ZeroBucket}
  <2> SUFFICES ASSUME NEW b \in sw_only, b # ZeroBucket PROVE FALSE
    OBVIOUS
  <2>1. b \in sw /\ b \notin pcapBuckets
    BY DEF sw_only
  <2>2. PICK i \in Frames : SwBucket(cap, i) = b
    BY <1>3, <2>1
  <2>3. RpBucket(cap, i) = b
    BY <1>1, <2>2, SwitchKnows DEF RpBucket
  <2>4. QED
    BY <1>2, <2>1, <2>3
<1>5. ASSUME Orderly PROVE sw_only = {} /\ pc_only = {}
  <2>1. \A i \in Frames : SwBucket(cap, i) = RpBucket(cap, i) /\ RpBucket(cap, i) \in Buckets
    BY <1>1, <1>5, OrderlyKnows, FramesAre DEF RpBucket
  <2>2. sw = pcapBuckets
    BY <1>2, <1>3, <2>1
  <2>3. QED
    BY <2>2 DEF sw_only, pc_only
<1>6. ASSUME Orderly
      PROVE  /\ distinctCids = CapCids
             /\ collisions = {b \in Buckets : Cardinality(CidsAt(b)) > 1}
             /\ separated = Cardinality({CidBucket(c) : c \in CapCids})
             /\ pkts_collided = Cardinality({i \in Frames : Cardinality(CidsAt(FrameBucket(i))) > 1})
  BY <1>6, OrderlyCids, SeparatedIs, AffectedAre
<1>7. QED
  BY <1>4, <1>5, <1>6 DEF CapCids, CidsAt, FrameBucket

\* The report is about connections and the cross-check is quiet where it
\* should be, for every capture.
THEOREM CrossCheckInvariant ==
  ASSUME Comparable, OwnKeys
  PROVE  PcapSpec => []CrossCheckQuiet
<1>1. PcapInit => ToolInv /\ SwitchInv
  BY ToolInit, SwitchInvInit
<1>2. ToolInv /\ SwitchInv /\ [PcapNext]_pcapVars => ToolInv' /\ SwitchInv'
  BY ToolStep, SwitchInvStep
<1>3. ToolInv /\ SwitchInv => CrossCheckQuiet
  BY CrossCheckHolds
<1>4. QED
  BY <1>1, <1>2, <1>3, PTL DEF PcapSpec

-----------------------------------------------------------------------------
(* The ground truth *)

\* The frames of a bucket whose ID tshark lists, and the tokens of a line.
ListedAt(b) == {i \in Listed : FrameBucket(i) = b}
Tok == [i \in Frames |-> Tokens(cap[i])]
AggKey(i) == <<cap[i].cid, cap[i].src, cap[i].dst>>

\* tshark lists an ID once per packet of the datagram.
LEMMA TokensNat ==
  ASSUME Comparable, cap \in Seq(Packets)
  PROVE  /\ \A i \in Frames : Tok[i] = Tokens(cap[i]) /\ Tok[i] \in Int /\ Coalesced(cap[i]) \in Nat
         /\ \A i \in Listed : Tok[i] = 1 + Coalesced(cap[i])
         /\ IsFiniteSet(Frames) /\ IsFiniteSet(Listed) /\ \A b : IsFiniteSet(ListedAt(b))
<1>1. \A i \in Frames : Coalesced(cap[i]) \in Nat
  BY FramesAre, CoalescedAssumption
<1>2. \A i \in Frames : Tok[i] = Tokens(cap[i]) /\ Tok[i] \in Int
  BY <1>1 DEF Tok, Tokens
<1>3. \A i \in Listed : Tok[i] = 1 + Coalesced(cap[i])
  BY DEF Listed, Tok, Tokens
<1>4. IsFiniteSet(Frames)
  BY FramesAre
<1>5. IsFiniteSet(Listed)
  BY <1>4, FS_Subset DEF Listed
<1>6. \A b : IsFiniteSet(ListedAt(b))
  BY <1>5, FS_Subset DEF ListedAt
<1>7. QED
  BY <1>1, <1>2, <1>3, <1>4, <1>5, <1>6

\* The tokens of some of the frames.
LEMMA TokensOn ==
  ASSUME Comparable, cap \in Seq(Packets), NEW T \in SUBSET Frames
  PROVE  SumFunction([i \in T |-> Tokens(cap[i])]) = SumFunctionOnSet(Tok, T)
<1> DEFINE f == [i \in T |-> Tokens(cap[i])]
<1>1. IsFiniteSet(T)
  BY TokensNat, FS_Subset
<1>2. DOMAIN f = T /\ \A i \in T : f[i] \in Int /\ f[i] = Tok[i]
  BY TokensNat
<1> HIDE DEF f
<1>3. SumFunctionOnSet(f, T) = SumFunctionOnSet(Tok, T)
  BY <1>1, <1>2, SumSame
<1>4. SumFunction(f) = SumFunctionOnSet(Tok, T)
  BY <1>2, <1>3 DEF SumFunction
<1>5. QED
  BY <1>4 DEF f

\* endpoint_buckets.py: the rows of a bucket hold its tokens.
LEMMA AggListed ==
  ASSUME Comparable, cap \in Seq(Packets), NEW b
  PROVE  SumFunction([k \in {x \in DOMAIN agg : agg[x].bucket = b} |-> agg[k].pkts])
           = SumFunctionOnSet(Tok, ListedAt(b))
<1> DEFINE K == {x \in DOMAIN agg : agg[x].bucket = b}
           L == ListedAt(b)
           m == [k \in K |-> agg[k].pkts]
           g == [i \in L |-> AggKey(i)]
           same(k) == {i \in Listed : AggKey(i) = k}
<1>1. DOMAIN agg = {AggKey(i) : i \in Listed}
  BY DEF agg, AggKey
<1>2. ASSUME NEW k \in DOMAIN agg
      PROVE  /\ agg[k].bucket = CidBucket(k[1])
             /\ agg[k].pkts = SumFunctionOnSet(Tok, same(k))
  <2>1. /\ agg[k].bucket = CidBucket(k[1])
        /\ agg[k].pkts = SumFunction([i \in same(k) |-> Tokens(cap[i])])
    BY DEF agg, AggKey, CidBucket, dcid_hash
  <2>2. same(k) \in SUBSET Frames
    BY DEF Listed
  <2> HIDE DEF same
  <2>3. QED
    BY <2>1, <2>2, TokensOn
<1>3. \A i \in Frames : AggKey(i)[1] = cap[i].cid
  BY DEF AggKey
<1>4. K = {k \in DOMAIN agg : CidBucket(k[1]) = b}
  BY <1>2
<1>5. \A i \in L : i \in Listed /\ i \in Frames /\ CidBucket(cap[i].cid) = b
  BY DEF ListedAt, Listed, FrameBucket
<1>6. \A i \in L : g[i] \in K
  <2> SUFFICES ASSUME NEW i \in L PROVE g[i] \in K
    OBVIOUS
  <2>1. AggKey(i) \in DOMAIN agg
    BY <1>1, <1>5
  <2>2. g[i] = AggKey(i)
    OBVIOUS
  <2> HIDE DEF K, g
  <2>3. QED
    BY <1>3, <1>4, <1>5, <2>1, <2>2
<1>7. ASSUME NEW k \in K PROVE Fibre(g, L, k) = same(k)
  <2>1. PICK j \in Listed : k = AggKey(j)
    BY <1>1
  <2>2. CidBucket(k[1]) = b
    BY <1>4
  <2>3. \A i \in Listed : AggKey(i) = k => cap[i].cid = k[1]
    BY <1>3 DEF Listed
  <2>4. \A i \in Listed : AggKey(i) = k => i \in L
    BY <2>2, <2>3 DEF ListedAt, FrameBucket
  <2>5. QED
    BY <1>5, <2>4 DEF Fibre
<1>8. IsFiniteSet(L) /\ \A i \in L : Tok[i] \in Int
  BY <1>5, TokensNat
<1>9. IsFiniteSet(K)
  <2> DEFINE h == [i \in Listed |-> AggKey(i)]
  <2>1. DOMAIN agg = {h[i] : i \in Listed}
    BY <1>1
  <2> HIDE DEF h
  <2>2. IsFiniteSet(DOMAIN agg)
    BY <2>1, TokensNat, ImageFinite
  <2>3. QED
    BY <2>2, FS_Subset
<1>10. \A k \in K : m[k] = SumFunctionOnSet(Tok, Fibre(g, L, k))
  BY <1>2, <1>7
<1>11. DOMAIN m = K
  OBVIOUS
<1> HIDE DEF K, L, m, g, same
<1>12. SumFunctionOnSet(m, K) = SumFunctionOnSet(Tok, L)
  BY <1>6, <1>8, <1>9, <1>10, SumFibres
<1>13. SumFunction(m) = SumFunctionOnSet(Tok, L)
  BY <1>11, <1>12 DEF SumFunction
<1>14. QED
  BY <1>13 DEF m, K, L

\* analyze_pcap.py: so do the IDs of a bucket.
LEMMA InfoListed ==
  ASSUME Comparable, cap \in Seq(Packets), NEW b
  PROVE  SumFunction([c \in {x \in DOMAIN dcid_info : b17(x) = b} |-> dcid_info[c].pkt_count])
           = SumFunctionOnSet(Tok, ListedAt(b))
<1> DEFINE K == {x \in DOMAIN dcid_info : b17(x) = b}
           L == ListedAt(b)
           m == [c \in K |-> dcid_info[c].pkt_count]
           g == [i \in L |-> cap[i].cid]
           same(c) == {i \in Listed : cap[i].cid = c}
<1>1. DOMAIN dcid_info = {cap[i].cid : i \in Listed}
  BY DEF dcid_info
<1>2. ASSUME NEW c \in DOMAIN dcid_info
      PROVE  dcid_info[c].pkt_count = SumFunctionOnSet(Tok, same(c))
  <2>1. dcid_info[c].pkt_count = SumFunction([i \in same(c) |-> Tokens(cap[i])])
    BY DEF dcid_info
  <2>2. same(c) \in SUBSET Frames
    BY DEF Listed
  <2> HIDE DEF same
  <2>3. QED
    BY <2>1, <2>2, TokensOn
<1>3. \A c : b17(c) = CidBucket(c)
  BY DEF b17, CidBucket, dcid_hash
<1>4. \A i \in L : i \in Listed /\ i \in Frames /\ CidBucket(cap[i].cid) = b
  BY DEF ListedAt, Listed, FrameBucket
<1>5. \A i \in L : g[i] \in K
  BY <1>1, <1>3, <1>4
<1>6. ASSUME NEW c \in K PROVE Fibre(g, L, c) = same(c)
  <2>1. CidBucket(c) = b
    BY <1>3
  <2>2. \A i \in Listed : cap[i].cid = c => i \in L
    BY <2>1 DEF ListedAt, FrameBucket
  <2>3. QED
    BY <1>4, <2>2 DEF Fibre
<1>7. IsFiniteSet(L) /\ \A i \in L : Tok[i] \in Int
  BY <1>4, TokensNat
<1>8. IsFiniteSet(K)
  <2> DEFINE h == [i \in Listed |-> cap[i].cid]
  <2>1. DOMAIN dcid_info = {h[i] : i \in Listed}
    BY <1>1
  <2> HIDE DEF h
  <2>2. IsFiniteSet(DOMAIN dcid_info)
    BY <2>1, TokensNat, ImageFinite
  <2>3. QED
    BY <2>2, FS_Subset
<1>9. \A c \in K : m[c] = SumFunctionOnSet(Tok, Fibre(g, L, c))
  BY <1>2, <1>6
<1>10. DOMAIN m = K
  OBVIOUS
<1> HIDE DEF K, L, m, g, same
<1>11. SumFunctionOnSet(m, K) = SumFunctionOnSet(Tok, L)
  BY <1>5, <1>7, <1>8, <1>9, SumFibres
<1>12. SumFunction(m) = SumFunctionOnSet(Tok, L)
  BY <1>10, <1>11 DEF SumFunction
<1>13. QED
  BY <1>12 DEF m, K, L

\* The lists of a bucket hold its listed frames once and, once more, the
\* packets behind the first of each.
LEMMA ListedTokens ==
  ASSUME Comparable, cap \in Seq(Packets), NEW b
  PROVE  /\ SumFunctionOnSet(Tok, ListedAt(b))
              = Cardinality(ListedAt(b)) + SumFunction([i \in ListedAt(b) |-> Coalesced(cap[i])])
         /\ SumFunction([i \in ListedAt(b) |-> Coalesced(cap[i])]) \in Int
<1> DEFINE L == ListedAt(b)
           one == [i \in L |-> 1]
           more == [i \in L |-> Coalesced(cap[i])]
<1>1. IsFiniteSet(L)
  BY TokensNat
<1>2. \A i \in L : i \in Listed /\ i \in Frames
  BY DEF ListedAt, Listed
<1>3. \A i \in L : one[i] = 1 /\ more[i] = Coalesced(cap[i]) /\ more[i] \in Nat
  BY <1>2, TokensNat
<1>4. \A i \in L : Tok[i] = one[i] + more[i]
  BY <1>2, <1>3, TokensNat
<1>5. DOMAIN more = L
  OBVIOUS
<1> HIDE DEF L, one, more
<1>6. \A i \in L : one[i] \in Int /\ more[i] \in Int
  BY <1>3
<1>7. SumFunctionOnSet(Tok, L) = SumFunctionOnSet(one, L) + SumFunctionOnSet(more, L)
  BY <1>1, <1>4, <1>6, SumAdd
<1>8. SumFunctionOnSet(one, L) = Cardinality(L)
  BY <1>1, <1>3, SumOnes
<1>9. SumFunctionOnSet(more, L) \in Int
  BY <1>1, <1>6, SumInt
<1>10. SumFunction(more) = SumFunctionOnSet(more, L)
  BY <1>5 DEF SumFunction
<1>11. QED
  BY <1>7, <1>8, <1>9, <1>10 DEF L, more

\* A bucket of the switch: the listed frames and the blank ones.
LEMMA BucketSplits ==
  ASSUME Comparable, cap \in Seq(Packets), NEW b
  PROVE  /\ FramesAt(b) \cap Listed = ListedAt(b)
         /\ Cardinality(FramesAt(b)) = Cardinality(ListedAt(b)) + Cardinality(FramesAt(b) \ Listed)
         /\ Cardinality(ListedAt(b)) \in Nat /\ Cardinality(FramesAt(b) \ Listed) \in Nat
<1> DEFINE F == FramesAt(b)
           L == ListedAt(b)
           E == F \ Listed
<1>1. F \cap Listed = L /\ L \cup E = F /\ L \cap E = {}
  BY DEF FramesAt, ListedAt, Listed
<1>2. F \subseteq Frames
  BY DEF FramesAt
<1>3. IsFiniteSet(F)
  BY <1>2, TokensNat, FS_Subset
<1> HIDE DEF F, L
<1>4. IsFiniteSet(E) /\ IsFiniteSet(L)
  BY <1>1, <1>3, FS_Subset
<1> HIDE DEF E
<1>5. Cardinality(L) \in Nat /\ Cardinality(E) \in Nat /\ Cardinality(L \cap E) = 0
  BY <1>1, <1>4, FS_CardinalityType, FS_EmptySet
<1>6. Cardinality(L \cup E) = Cardinality(L) + Cardinality(E) - Cardinality(L \cap E)
  BY <1>4, FS_Union
<1>6a. Cardinality(F) = Cardinality(L \cup E)
  BY <1>1
<1>7. Cardinality(F) = Cardinality(L) + Cardinality(E)
  BY <1>5, <1>6, <1>6a
<1>8. QED
  BY <1>1, <1>5, <1>7 DEF E, F, L

\* Both scripts, bucket by bucket, against the registers.
LEMMA GroundTruthHolds ==
  ASSUME Comparable, SwitchInv, ToolInv
  PROVE  GroundTruthExact
<1> SUFFICES ASSUME tool = "done", Orderly, NEW b \in Buckets
             PROVE  LET here == {i \in Frames : CidBucket(cap[i].cid) = b}
                        listed == SumFunction([k \in {x \in DOMAIN agg : agg[x].bucket = b} |-> agg[k].pkts])
                    IN  /\ listed + Cardinality(here \ Listed)
                             = quic_pkt_count[b] + SumFunction([i \in here \cap Listed |-> Coalesced(cap[i])])
                        /\ listed = SumFunction([c \in {x \in DOMAIN dcid_info : b17(x) = b} |-> dcid_info[c].pkt_count])
  BY DEF GroundTruthExact
<1> DEFINE here == {i \in Frames : CidBucket(cap[i].cid) = b}
           listed == SumFunction([k \in {x \in DOMAIN agg : agg[x].bucket = b} |-> agg[k].pkts])
           info == SumFunction([c \in {x \in DOMAIN dcid_info : b17(x) = b} |-> dcid_info[c].pkt_count])
           more == SumFunction([i \in here \cap Listed |-> Coalesced(cap[i])])
           T == SumFunctionOnSet(Tok, ListedAt(b))
           n == Cardinality(ListedAt(b))
           e == Cardinality(here \ Listed)
<1>1. cap \in Seq(Packets)
  BY DEF SwitchInv
<1>2. here = FramesAt(b)
  BY DEF FramesAt, FrameBucket
<1>3. /\ here \cap Listed = ListedAt(b)
      /\ Cardinality(here) = n + e /\ n \in Nat /\ e \in Nat
  BY <1>1, <1>2, BucketSplits
<1>4. T = n + more /\ more \in Int
  BY <1>1, <1>3, ListedTokens
<1>5. listed = T /\ info = T
  BY <1>1, AggListed, InfoListed
<1>6. quic_pkt_count[b] = n + e
  BY <1>2, <1>3, OrderlyReport
<1> HIDE DEF here, listed, info, more, T, n, e
<1>7. listed + e = quic_pkt_count[b] + more /\ listed = info
  BY <1>3, <1>4, <1>5, <1>6
<1>8. QED
  BY <1>7 DEF here, listed, info, more, e

\* On every orderly capture, and whatever tshark left blank, the switch counts
\* in each bucket what tshark lists there less the packets behind the first of
\* a datagram, and the blank frames besides; both scripts read the same.
THEOREM GroundTruthInvariant ==
  ASSUME Comparable
  PROVE  PcapSpec => []GroundTruthExact
<1>1. PcapInit => ToolInv /\ SwitchInv
  BY ToolInit, SwitchInvInit
<1>2. ToolInv /\ SwitchInv /\ [PcapNext]_pcapVars => ToolInv' /\ SwitchInv'
  BY ToolStep, SwitchInvStep
<1>3. ToolInv /\ SwitchInv => GroundTruthExact
  BY GroundTruthHolds
<1>4. QED
  BY <1>1, <1>2, <1>3, PTL DEF PcapSpec

=============================================================================
