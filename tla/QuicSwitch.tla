----------------------------- MODULE QuicSwitch -----------------------------
(***************************************************************************)
(* The Tofino pipeline of P4-QUIC and the bfrt scripts that program it.    *)
(*                                                                         *)
(* A packet crosses the parser, the ingress control and the deparser in    *)
(* one atomic step (RegisterActions are atomic in the hardware).  A bfrt   *)
(* script issues its table and register operations one by one, and packets *)
(* are processed between any two of them.  The driver admits one Python    *)
(* shell at a time, so no two scripts interleave.                          *)
(***************************************************************************)
EXTENDS QuicMask, Functions

CONSTANTS
  Packets,     \* the packets the two endpoints may send
  CRC16(_),    \* external: HashAlgorithm_t.CRC16 of the 4-tuple
  CRC32(_),    \* external: HashAlgorithm_t.CRC32 of 20 bytes, and zlib's
  NKeys,       \* entries of dcid_len_reg      (65536 in the code)
  NBuckets,    \* entries of quic_pkt_count    (131072)
  NCtrs,       \* entries of quic_flow_bytes   (32768)
  CntMod,      \* a quic_pkt_count cell wraps at this value (2^32)
  MaxPackets,  \* bound: packets processed in a behaviour
  MaxScripts   \* bound: scripts started in a behaviour

VARIABLES
  dcid_len_reg,    \* flow key -> learned DCID length
  quic_pkt_count,  \* bucket -> packets, 32 bits wide
  quic_flow_pkts,  \* counter slot -> packets (quic_flow_bytes, packet half)
  quic_flow_bytes, \* counter slot -> bytes   (quic_flow_bytes, byte half)
  force_len,       \* argument of cfg_tbl's default action
  forwarding,      \* ingress port -> egress port, the entries installed
  digests,         \* digests packed and not yet delivered, oldest first
  learn_client,    \* digest callback the driver holds
  nolearn,         \* the driver has logged "no learn clients"
  shell,           \* what the one Python shell has last done; "free"
  npackets,        \* packets processed
  nscripts         \* scripts started

regVars == <<dcid_len_reg, quic_pkt_count, quic_flow_pkts, quic_flow_bytes>>
tblVars == <<force_len, forwarding>>
dgstVars == <<digests, learn_client, nolearn>>
vars == <<regVars, tblVars, dgstVars, shell, npackets, nscripts>>

-----------------------------------------------------------------------------
(* Packets *)

Keys == 0 .. NKeys - 1
Buckets == 0 .. NBuckets - 1
Ctrs == 0 .. NCtrs - 1
Ports == {128, 136}   \* the two device ports setup.py wires together

(***************************************************************************)
(* A packet as the parser sees it.  "cid" is the connection ID the sender  *)
(* addressed: the switch never reads it, properties do.                    *)
(***************************************************************************)
IsHeader(p) ==
  /\ p.port \in Ports
  /\ p.ether \in {"ipv4", "vlan", "other"}
  /\ p.proto \in {"udp", "other"}
  /\ {p.src, p.dst, p.sp, p.dp} \subseteq Nat
IsQuicForm(p) == p.form \in {"long", "short"} /\ p.ltype \in 0 .. 3
IsQuicDcid(p) == /\ p.dcid_len \in 0 .. 255
                 /\ p.dcid \in Dcid
                 /\ p.cid \in Seq(Byte)
                 /\ p.bytes \in Nat

\* parse_ethernet .. parse_quic_dispatch: the path to a QUIC header.
Quic(p) == /\ p.ether = "ipv4"
           /\ p.proto = "udp"
           /\ p.dp = 443 \/ p.sp = 443
Long(p) == Quic(p) /\ p.form = "long"
Short(p) == Quic(p) /\ p.form = "short"
Handshake(p) == Long(p) /\ p.ltype = 2

\* meta.dcid_len, set by the parser: what the digest will say.
parsed_len(p) == CASE Long(p) -> p.dcid_len
                   [] Short(p) -> DcidBytes
                   [] OTHER -> 0

flow_tuple(p) == <<p.src, p.dst, p.sp, p.dp>>
flow_key(p) == CRC16(flow_tuple(p)) % NKeys
dcid_hash(masked) == CRC32(masked) % NBuckets
CtrOf(bucket) == bucket % NCtrs

\* The bucket of a connection ID hashed on its own, and of no bytes at all.
CidBucket(cid) == dcid_hash(Padded(cid))
ZeroBucket == CidBucket(<<>>)

ASSUME SizesAssumption ==
  /\ NKeys \in Nat \ {0}
  /\ NBuckets \in Nat \ {0}
  /\ NCtrs \in Nat \ {0}
  /\ CntMod \in Nat \ {0, 1}
  /\ MaxPackets \in Nat
  /\ MaxScripts \in Nat

ASSUME PacketsAssumption ==
  \A p \in Packets : IsHeader(p) /\ IsQuicForm(p) /\ IsQuicDcid(p)

ASSUME HashAssumption ==
  \A p \in Packets :
     /\ CRC16(flow_tuple(p)) \in Nat
     /\ CRC32(Padded(p.cid)) \in Nat
     /\ \A len \in 0 .. 255 : CRC32(Masked(p.dcid, len)) \in Nat

\* A QUIC header shows the addressed connection ID; a long one also its length.
ASSUME WireAssumption ==
  \A p \in Packets : Quic(p) => /\ Shows(p.dcid, p.cid)
                                /\ Long(p) => p.dcid_len = Len(p.cid)

-----------------------------------------------------------------------------
(* The packet step *)

\* Steps 4 and 5 of Ingress.apply: wire, learned or recalled, then forced.
eff_len(p) ==
  CASE force_len # 0 -> force_len
    [] Short(p)      -> dcid_len_reg[flow_key(p)]
    [] Long(p)       -> p.dcid_len
    [] OTHER         -> 0

flow_id(p) == dcid_hash(Masked(p.dcid, eff_len(p)))

\* Mutants of Learn: learn from every long header, an Initial's included; learn
\* the parser's length (20 for a short header) from every QUIC packet.
Learn_AnyLong(p) ==
  dcid_len_reg' = IF Long(p) THEN [dcid_len_reg EXCEPT ![flow_key(p)] = p.dcid_len]
                             ELSE dcid_len_reg
Learn_ParserLen(p) ==
  dcid_len_reg' = IF Quic(p) THEN [dcid_len_reg EXCEPT ![flow_key(p)] = parsed_len(p)]
                             ELSE dcid_len_reg

\* learn_len: a Handshake packet seeds the register, whatever force_len is.
Learn(p) ==
  dcid_len_reg' = IF Handshake(p)
                  THEN [dcid_len_reg EXCEPT ![flow_key(p)] = p.dcid_len]
                  ELSE dcid_len_reg

\* Mutant of count_quic: a cell that does not wrap.
count_quic_Wide(b) == quic_pkt_count[b] + 1

\* The value count_quic leaves in (and returns from) a bucket.
count_quic(b) == (quic_pkt_count[b] + 1) % CntMod

quic_digest(p) ==
  [src |-> p.src, dst |-> p.dst, sp |-> p.sp, dp |-> p.dp,
   form |-> p.form, dcid_len |-> parsed_len(p), dcid |-> p.dcid]

Digest == {quic_digest(p) : p \in Packets}

\* Counter, packet register and digest: step 9 of Ingress.apply.
Count(p) ==
  LET b == flow_id(p)
      c == CtrOf(b)
  IN /\ quic_flow_pkts' = [quic_flow_pkts EXCEPT ![c] = @ + 1]
     /\ quic_flow_bytes' = [quic_flow_bytes EXCEPT ![c] = @ + p.bytes]
     /\ quic_pkt_count' = [quic_pkt_count EXCEPT ![b] = count_quic(b)]
     /\ digests' = IF count_quic(b) = 1 THEN Append(digests, quic_digest(p))
                                        ELSE digests

\* One packet through parser, ingress, deparser.  The forwarding lookup only
\* picks the egress port and changes no state of the switch.
Process(p) ==
  /\ npackets < MaxPackets
  /\ Learn(p)
  /\ IF Quic(p) THEN Count(p)
                ELSE UNCHANGED <<quic_flow_pkts, quic_flow_bytes,
                                 quic_pkt_count, digests>>
  /\ npackets' = npackets + 1
  /\ UNCHANGED <<tblVars, learn_client, nolearn, shell, nscripts>>

\* Where the packet leaves; a miss leaves no egress port and drops it.
Egress(p) == IF p.port \in DOMAIN forwarding THEN forwarding[p.port] ELSE 0

-----------------------------------------------------------------------------
(* Digest delivery (the driver, external) *)

\* The driver hands a digest to the registered callback, or logs that there
\* is none.  setup.py's callback ignores it.
Deliver ==
  /\ digests # <<>>
  /\ learn_client \in {"none", "noop"}
  /\ digests' = Tail(digests)
  /\ nolearn' = (nolearn \/ learn_client = "none")
  /\ UNCHANGED <<regVars, tblVars, learn_client, shell, npackets, nscripts>>

-----------------------------------------------------------------------------
(* The bfrt scripts *)

\* A script gets the shell only when it is free.
Begin(step) == /\ shell = "free"
               /\ nscripts < MaxScripts
               /\ shell' = step
               /\ nscripts' = nscripts + 1

Continue(from, to) == /\ shell = from
                      /\ shell' = to
                      /\ UNCHANGED nscripts

SetupClear == /\ Begin("fwd_clear")
              /\ forwarding' = <<>>
              /\ UNCHANGED <<regVars, dgstVars, force_len, npackets>>

AddForward(from, to, port, egress) ==
  /\ Continue(from, to)
  /\ forwarding' = [q \in DOMAIN forwarding \cup {port} |->
                      IF q = port THEN egress ELSE forwarding[q]]
  /\ UNCHANGED <<regVars, dgstVars, force_len, npackets>>

\* Mutants of SetupForward: a port wired to itself; one direction forgotten.
SetupForward_Reflect == \/ AddForward("fwd_clear", "fwd_136", 136, 128)
                        \/ AddForward("fwd_136", "fwd_128", 128, 128)
SetupForward_OneWay == \/ AddForward("fwd_clear", "fwd_136", 136, 128)
                       \/ AddForward("fwd_136", "fwd_128", 136, 128)

SetupForward == \/ AddForward("fwd_clear", "fwd_136", 136, 128)
                \/ AddForward("fwd_136", "fwd_128", 128, 136)

SetupArm == /\ Continue("fwd_128", "arm_set")
            /\ force_len' = 0
            /\ UNCHANGED <<regVars, dgstVars, forwarding, npackets>>

SetupDeregister == /\ Continue("arm_set", "cb_gone")
                   /\ learn_client' = "none"
                   /\ UNCHANGED <<regVars, tblVars, digests, nolearn, npackets>>

SetupRegister == /\ Continue("cb_gone", "free")
                 /\ learn_client' = "noop"
                 /\ UNCHANGED <<regVars, tblVars, digests, nolearn, npackets>>

\* set_aware.py (0), set_naive.py (20), set_force8.py (8).
Arms == {0, 8, 20}
SetArm(len) == /\ shell = "free"
               /\ nscripts < MaxScripts
               /\ nscripts' = nscripts + 1
               /\ force_len' = len
               /\ UNCHANGED <<regVars, dgstVars, forwarding, shell, npackets>>

\* Mutant of ResetPktCount: the counter goes first.
ResetPktCount_CtrFirst ==
  /\ Begin("clr_pkt")
  /\ quic_flow_pkts' = [c \in Ctrs |-> 0]
  /\ quic_flow_bytes' = [c \in Ctrs |-> 0]
  /\ UNCHANGED <<dcid_len_reg, quic_pkt_count, tblVars, dgstVars, npackets>>

\* reset_counts.py: three clears, in this order.
ResetPktCount == /\ Begin("clr_pkt")
                 /\ quic_pkt_count' = [b \in Buckets |-> 0]
                 /\ UNCHANGED <<dcid_len_reg, quic_flow_pkts, quic_flow_bytes,
                                tblVars, dgstVars, npackets>>

ResetFlowBytes == /\ Continue("clr_pkt", "clr_bytes")
                  /\ quic_flow_pkts' = [c \in Ctrs |-> 0]
                  /\ quic_flow_bytes' = [c \in Ctrs |-> 0]
                  /\ UNCHANGED <<dcid_len_reg, quic_pkt_count, tblVars,
                                 dgstVars, npackets>>

ResetLens == /\ Continue("clr_bytes", "free")
             /\ dcid_len_reg' = [k \in Keys |-> 0]
             /\ UNCHANGED <<quic_pkt_count, quic_flow_pkts, quic_flow_bytes,
                            tblVars, dgstVars, npackets>>

Setup == SetupClear \/ SetupForward \/ SetupArm \/ SetupDeregister \/ SetupRegister
Reset == ResetPktCount \/ ResetFlowBytes \/ ResetLens

\* The steps of a script that has the shell: batch scripts run to their end.
ScriptStep == \/ SetupForward \/ SetupArm \/ SetupDeregister \/ SetupRegister
              \/ ResetFlowBytes \/ ResetLens

-----------------------------------------------------------------------------
(* Specification *)

\* The program just loaded: registers zero, tables empty, cfg_tbl's default.
Init ==
  /\ dcid_len_reg = [k \in Keys |-> 0]
  /\ quic_pkt_count = [b \in Buckets |-> 0]
  /\ quic_flow_pkts = [c \in Ctrs |-> 0]
  /\ quic_flow_bytes = [c \in Ctrs |-> 0]
  /\ force_len = 0
  /\ forwarding = <<>>
  /\ digests = <<>>
  /\ learn_client = "none"
  /\ nolearn = FALSE
  /\ shell = "free"
  /\ npackets = 0
  /\ nscripts = 0

Next == \/ \E p \in Packets : Process(p)
        \/ Deliver
        \/ Setup
        \/ \E len \in Arms : SetArm(len)
        \/ Reset

Spec == Init /\ [][Next]_vars

-----------------------------------------------------------------------------
(* Properties *)

\* Who can hold the digest callback, and the shell.
LearnClients == {"none", "noop", "monitor", "display"}
Shells == {"free", "fwd_clear", "fwd_136", "fwd_128", "arm_set", "cb_gone",
           "clr_pkt", "clr_bytes", "scan", "monitor", "poll", "display"}

\* Every register cell, table and queue holds values of its hardware width.
TypeOK ==
  /\ dcid_len_reg \in [Keys -> 0 .. 255]
  /\ quic_pkt_count \in [Buckets -> 0 .. CntMod - 1]
  /\ quic_flow_pkts \in [Ctrs -> Nat]
  /\ quic_flow_bytes \in [Ctrs -> Nat]
  /\ force_len \in Arms
  /\ digests \in Seq(Digest)
  /\ learn_client \in LearnClients
  /\ nolearn \in BOOLEAN
  /\ shell \in Shells
  /\ npackets \in 0 .. MaxPackets
  /\ nscripts \in 0 .. MaxScripts

\* A learned length always comes from a Handshake packet of a flow with that
\* key, never from the random-length DCID of an Initial (ingress.p4, step 4),
\* whatever arm is set and however resets interleave with the handshakes.
LearnedFromHandshake ==
  \A k \in Keys :
     dcid_len_reg[k] # 0 =>
        \E p \in Packets : /\ Handshake(p)
                           /\ flow_key(p) = k
                           /\ p.dcid_len = dcid_len_reg[k]

\* No Handshake of another flow can overwrite the length p's flow learned.
Unshared(p) ==
  \A q \in Packets :
     Handshake(q) /\ flow_key(q) = flow_key(p) => q.dcid_len = Len(p.cid)

\* In the length-aware arm a packet counts in the bucket of its connection ID,
\* or, if its length is not known (no Handshake seen, or cleared by a reset,
\* or beyond the mask table), in the one bucket of the empty mask: ciphertext
\* never reaches the hash, in any order of packets, resets and arm changes.
AwareBuckets ==
  force_len = 0 =>
     \A p \in Packets :
        Quic(p) /\ (Short(p) => Unshared(p)) =>
           flow_id(p) \in {CidBucket(p.cid), ZeroBucket}

\* README.md and the comment on the register say that quic_pkt_count counts the
\* packets of the server: a client's packet leaves it alone.  (It does not: the
\* one call of count_quic is under the QUIC test only.)
PktCountServerToClient ==
  [][\A p \in Packets : Process(p) /\ p.sp # 443 => UNCHANGED quic_pkt_count]_vars

\* display_quic.py's banner and the comment on quic_digest_t say that every QUIC
\* packet sends a digest.  (Only the first one of a bucket does.)
DigestPerPacket ==
  [][\A p \in Packets : Process(p) /\ Quic(p) =>
        digests' = Append(digests, quic_digest(p))]_vars

\* setup.py registers its callback last and rewires before that, so whenever
\* the callback is there and setup.py is not rewiring again, the switch is
\* transparent: every packet leaves by the opposite port.
Peer(port) == CHOOSE q \in Ports : q # port
Transparent ==
  (learn_client = "noop" /\ shell \notin {"fwd_clear", "fwd_136"}) =>
     \A p \in Packets : Egress(p) = Peer(p.port)

\* setup.py, once begun, leaves both directions wired and a digest callback,
\* whatever traffic meets the half-programmed table.
SetupCompletes ==
  shell = "fwd_clear" ~> /\ DOMAIN forwarding = Ports
                         /\ learn_client = "noop"
=============================================================================
